---- MODULE Spec2Model ----
(***************************************************************************)
(* Uniwill fan control: the kernel module uniwill_fan.c (EC register       *)
(* transport, custom-fan-table handshake, sysfs stores, unload) and the    *)
(* two user-space daemons (hwmon variant and legacy variant).              *)
(***************************************************************************)
EXTENDS Integers, Sequences, FiniteSets, TLC

(***************************************************************************)
(* Bounds of the model.                                                    *)
(***************************************************************************)
\* handler invocations (sysfs stores, unload) per behaviour of the driver
MaxCalls == 2
\* failed EC transactions per behaviour of the driver
MaxFail == 1

(***************************************************************************)
(* uniwill_fan.c: register map and limits.                                 *)
(***************************************************************************)
UW_EC_REG_USE_CUSTOM_FAN_TABLE_0 == 1989      \* 0x07c5
UW_EC_REG_USE_CUSTOM_FAN_TABLE_1 == 1990      \* 0x07c6
UW_EC_REG_CPU_FAN_TABLE_END_TEMP == 3840      \* 0x0f00
UW_EC_REG_CPU_FAN_TABLE_START_TEMP == 3856    \* 0x0f10
UW_EC_REG_CPU_FAN_TABLE_FAN_SPEED == 3872     \* 0x0f20
UW_EC_REG_GPU_FAN_TABLE_END_TEMP == 3888      \* 0x0f30
UW_EC_REG_GPU_FAN_TABLE_START_TEMP == 3904    \* 0x0f40
UW_EC_REG_GPU_FAN_TABLE_FAN_SPEED == 3920     \* 0x0f50
UW_EC_REG_FAN1_SPEED == 6148                  \* 0x1804
UW_EC_REG_FAN2_SPEED == 6153                  \* 0x1809
UW_EC_REG_FAN_MODE == 1873                    \* 0x0751
UW_EC_FAN_MODE_BIT == 64                      \* 0x40
UW_EC_REG_MANUAL_MODE == 1857                 \* 0x0741
UW_EC_REG_CUSTOM_PROFILE == 1831              \* 0x0727
UW_EC_CUSTOM_PROFILE_BIT == 64                \* 0x40, bit 6
FAN_SPEED_MAX == 200                          \* 0xc8
FAN_ON_MIN_SPEED == 25                        \* 0x19
\* (1 << 7) of 0x07c5 and (1 << 2) of 0x07c6
TABLE_0_BIT == 128
TABLE_1_BIT == 4
\* u8 temp_offset = 115, the zone-0 end temperatures, the last dummy zone
TEMP_OFFSET == 115
CPU_ZONE0_END == 115
GPU_ZONE0_END == 120
LAST_ZONE == 15
\* the direct-speed register is written 5 times, a write is tried 3 times
DIRECT_WRITES == 5
WRITE_RETRIES == 3

\* one byte of EC RAM, and the conversion of an int argument to a u8 parameter
Byte == 0..255
ToU8(n) == n % 256

\* v & m != 0, v & ~m and v | m for a one-bit mask m
HasBit(v, m) == (v \div m) % 2 = 1
ClearBit(v, m) == IF HasBit(v, m) THEN v - m ELSE v
SetBit(v, m) == IF HasBit(v, m) THEN v ELSE v + m

ModeRegs == {UW_EC_REG_CUSTOM_PROFILE, UW_EC_REG_MANUAL_MODE, UW_EC_REG_FAN_MODE,
             UW_EC_REG_USE_CUSTOM_FAN_TABLE_0, UW_EC_REG_USE_CUSTOM_FAN_TABLE_1}
TableBases == {UW_EC_REG_CPU_FAN_TABLE_END_TEMP, UW_EC_REG_CPU_FAN_TABLE_START_TEMP,
               UW_EC_REG_CPU_FAN_TABLE_FAN_SPEED, UW_EC_REG_GPU_FAN_TABLE_END_TEMP,
               UW_EC_REG_GPU_FAN_TABLE_START_TEMP, UW_EC_REG_GPU_FAN_TABLE_FAN_SPEED}
TableRegs == {b + z : b \in TableBases, z \in 0..LAST_ZONE}
DummyRegs == {b + z : b \in TableBases, z \in 1..LAST_ZONE}
DirectRegs == {UW_EC_REG_FAN1_SPEED, UW_EC_REG_FAN2_SPEED}
EcAddrs == ModeRegs \cup TableRegs \cup DirectRegs

\* the table speed register and the direct speed register fan_set_speed selects
TableAddr(fan_idx) ==
    IF fan_idx = 0 THEN UW_EC_REG_CPU_FAN_TABLE_FAN_SPEED
    ELSE UW_EC_REG_GPU_FAN_TABLE_FAN_SPEED
DirectAddr(fan_idx) ==
    IF fan_idx = 0 THEN UW_EC_REG_FAN1_SPEED ELSE UW_EC_REG_FAN2_SPEED

\* mutant: zero is not replaced by the parked value
RemapSpeedNoPark(speed) ==
    LET c == IF speed > FAN_SPEED_MAX THEN FAN_SPEED_MAX ELSE speed
    IN  IF c < FAN_ON_MIN_SPEED /\ c # 0 THEN FAN_ON_MIN_SPEED ELSE c

\* fan_set_speed: clamp, then the speed=1 trick and the minimum running speed
RemapSpeed(speed) ==
    LET c == IF speed > FAN_SPEED_MAX THEN FAN_SPEED_MAX ELSE speed
    IN  IF c = 0 THEN 1
        ELSE IF c < FAN_ON_MIN_SPEED THEN FAN_ON_MIN_SPEED
        ELSE c

\* the value init_custom_fan_table writes to a dummy zone register
DummyValue(addr) ==
    LET z == addr % 16
        b == addr - z
    IN  IF b \in {UW_EC_REG_CPU_FAN_TABLE_END_TEMP, UW_EC_REG_GPU_FAN_TABLE_END_TEMP}
        THEN ToU8(TEMP_OFFSET + z + 1)
        ELSE IF b \in {UW_EC_REG_CPU_FAN_TABLE_START_TEMP,
                       UW_EC_REG_GPU_FAN_TABLE_START_TEMP}
        THEN ToU8(TEMP_OFFSET + z)
        ELSE FAN_SPEED_MAX

(***************************************************************************)
(* State.                                                                  *)
(***************************************************************************)
VARIABLES
    ec,                \* EC RAM: register address -> byte
    fans_initialized,  \* static bool fans_initialized
    kpc,               \* position of each kernel thread
    caller,            \* the entry point each thread came in by
    store_speed,       \* int speed parsed by fanN_speed_store, per thread
    fan_idx, speed,    \* fan_set_speed's parameters, per thread
    val0, val1, mode,  \* locals of init_custom_fan_table / fan_set_auto
    i,                 \* fan_set_speed's loop counter
    ret,               \* what the thread's last store returned
    wire,              \* the last EC transaction issued
    nops,              \* EC transactions issued by the thread's current call
    callfail,          \* whether one of them failed
    nfail, ncalls,     \* failed transactions and handler calls so far
    unloaded           \* uniwill_fan_exit has completed

VARIABLES
    ec_lock,           \* static DEFINE_MUTEX(ec_lock): 0 when free, else the holder
    tpc,               \* position of each caller inside uw_ec_read / uw_ec_write
    t_kind,            \* which of the two the caller's last call was
    t_addr, t_value,   \* the call's arguments addr and value
    t_out,             \* the byte the caller passed as u8 *value
    retries, t_ret,    \* the locals retries and ret
    attempts, nfailed  \* wmi_evaluate_method calls of the call, and the failed ones

tvars == <<ec_lock, tpc, t_kind, t_addr, t_value, t_out, retries, t_ret, attempts, nfailed>>

VARIABLES
    variant,           \* which daemon runs: "hwmon" or "legacy"
    dpc,               \* position of the daemon process in main
    running,           \* static volatile sig_atomic_t running
    handlers,          \* the signals signal_handler is installed for
    cpu_src, gpu_src,  \* whether a CPU / GPU temperature source was found
    has_pwm2,          \* pwm_sink.has_pwm2
    sink,              \* whether select_pwm_sink found a PWM device
    ts_sec,            \* ts.tv_sec of the last nanosleep
    sysfs,             \* the value of each sysfs node the daemons write
    mret,              \* set_manual_mode's local ret
    cpu_t, gpu_t,      \* the tick's two readings
    raw_temp, temp,    \* the tick's sample and the temperature the target is computed from
    temp_smooth,       \* static struct temp_history temp_smooth
    target,            \* main's local target
    unified_fan,       \* unified_fan.current
    exit_status,       \* what main returned, NoExit before that
    restores,          \* calls of restore_auto
    nticks, signals,   \* loop iterations started, signals delivered
    took_manual,       \* a write that hands a node to manual control took effect
    manual_ctl,        \* the daemon went on past taking manual control
    sig_after_manual,  \* a signal was delivered after that
    ticks_after_sig,   \* loop iterations started after such a signal
    write_after_restore \* a fan target was written after restore_auto

dcfg == <<variant, cpu_src, gpu_src, has_pwm2, sink>>
dtick == <<cpu_t, gpu_t, raw_temp, temp, temp_smooth, target, unified_fan, ts_sec>>
dghost == <<took_manual, manual_ctl, sig_after_manual, ticks_after_sig, write_after_restore>>
dvars == <<dcfg, dtick, dghost, dpc, running, handlers, sysfs, mret, exit_status, restores,
           nticks, signals>>

VARIABLES
    f_variant,         \* whose curve is applied: "hwmon" or "legacy"
    f_calls,           \* calls of calc_target / smooth_temp made so far
    f_temp, f_prev,    \* calc_target's arguments: the temperature and the previous value
    f_speed,           \* calc_target's first interpolate_speed(temp)
    f_target,          \* what calc_target returned
    on_script,         \* the temperatures passed so far are those of the scenario
    f_hist,            \* the struct temp_history smooth_temp works on
    f_avg,             \* what smooth_temp returned
    f_passed,          \* the samples passed to smooth_temp, in order
    f_base,            \* the lowest temperature of the window the calls stay in
    f_first            \* the previous value the first call of a window was given

fvars == <<f_variant, f_calls, f_temp, f_prev, f_speed, f_target, on_script, f_hist, f_avg,
           f_passed, f_base, f_first>>

\* everything that is not state of the driver's handlers
xvars == <<tvars, dvars, fvars>>

kvars == <<ec, fans_initialized, kpc, caller, store_speed, fan_idx, speed, val0, val1, mode, i,
           ret, wire, nops, callfail, nfail, ncalls, unloaded>>

vars == <<kvars, xvars>>

Threads == {1, 2}
\* a local that was declared and not yet assigned
Undef == -1
\* what an unassigned stack byte may hold
Garbage == {0, 255}

\* EC RAM when the module is loaded: automatic mode, automatic mode with the
\* full-fan bit set, and custom mode left behind by another driver
EcImage(k) ==
    [a \in EcAddrs |->
        IF a = UW_EC_REG_CUSTOM_PROFILE THEN (IF k = 3 THEN 65 ELSE 1)
        ELSE IF a = UW_EC_REG_MANUAL_MODE THEN (IF k = 3 THEN 1 ELSE 0)
        ELSE IF a = UW_EC_REG_FAN_MODE THEN (IF k = 2 THEN 80 ELSE 16)
        ELSE IF a = UW_EC_REG_USE_CUSTOM_FAN_TABLE_0 THEN (IF k = 3 THEN 129 ELSE 1)
        ELSE IF a = UW_EC_REG_USE_CUSTOM_FAN_TABLE_1 THEN (IF k = 3 THEN 5 ELSE 1)
        ELSE IF a \in DirectRegs THEN 60
        ELSE 90]
EcImages == {EcImage(k) : k \in 1..3}

NoWire == [by |-> 0, rw |-> "none", addr |-> 0, value |-> 0, ok |-> TRUE]

\* the driver just loaded, with failed transactions counted from n
KLoad(n) ==
    /\ ec \in EcImages
    /\ fans_initialized = FALSE
    /\ kpc = [t \in Threads |-> "idle"]
    /\ caller = [t \in Threads |-> "none"]
    /\ store_speed = [t \in Threads |-> 0]
    /\ fan_idx = [t \in Threads |-> 0]
    /\ speed = [t \in Threads |-> 0]
    /\ val0 = [t \in Threads |-> Undef]
    /\ val1 = [t \in Threads |-> Undef]
    /\ mode = [t \in Threads |-> Undef]
    /\ i = [t \in Threads |-> 0]
    /\ ret = [t \in Threads |-> "none"]
    /\ wire = NoWire
    /\ nops = [t \in Threads |-> 0]
    /\ callfail = [t \in Threads |-> FALSE]
    /\ nfail = n
    /\ ncalls = 0
    /\ unloaded = FALSE
    /\ ec_lock = 0
    /\ tpc = [t \in Threads |-> "t_idle"]
    /\ t_kind = [t \in Threads |-> "none"]
    /\ t_addr = [t \in Threads |-> 0]
    /\ t_value = [t \in Threads |-> 0]
    /\ t_out = [t \in Threads |-> Undef]
    /\ retries = [t \in Threads |-> 0]
    /\ t_ret = [t \in Threads |-> "none"]
    /\ attempts = [t \in Threads |-> 0]
    /\ nfailed = [t \in Threads |-> 0]

Variants == {"hwmon", "legacy"}
NoExit == -1
Nodes == {"pwm1_enable", "pwm2_enable", "pwm1", "pwm2", "fan_auto", "fan1_speed", "fan2_speed"}
TEMP_HISTORY_SIZE == 8

\* daemon v before main has run: running = 1, temp_smooth = {{0}, 0, 0},
\* target = 0, unified_fan = {0, -1}; the hardware is under automatic control
DLoad(v) ==
    /\ variant = v
    /\ dpc = "main"
    /\ running = 1
    /\ handlers = {}
    /\ cpu_src = FALSE
    /\ gpu_src = FALSE
    /\ has_pwm2 = FALSE
    /\ sink = FALSE
    /\ ts_sec = 0
    /\ sysfs = [n \in Nodes |-> CASE n \in {"pwm1_enable", "pwm2_enable"} -> 2
                                  [] n = "fan_auto" -> 1
                                  [] OTHER -> 0]
    /\ mret = 0
    /\ cpu_t = 0
    /\ gpu_t = 0
    /\ raw_temp = 0
    /\ temp = 0
    /\ temp_smooth = [samples |-> [k \in 0..(TEMP_HISTORY_SIZE - 1) |-> 0],
                      index |-> 0, count |-> 0]
    /\ target = 0
    /\ unified_fan = 0
    /\ exit_status = NoExit
    /\ restores = 0
    /\ nticks = 0
    /\ signals = 0
    /\ took_manual = FALSE
    /\ manual_ctl = FALSE
    /\ sig_after_manual = FALSE
    /\ ticks_after_sig = 0
    /\ write_after_restore = FALSE

\* nothing computed yet with curve v and previous value p; an empty history;
\* the window that starts at base, 0 and 0 where the calls are not kept to one
FLoadWindow(v, p, base, first) ==
    /\ f_base = base
    /\ f_first = first
    /\ f_variant = v
    /\ f_calls = 0
    /\ f_temp = 0
    /\ f_prev = p
    /\ f_speed = 0
    /\ f_target = 0
    /\ on_script = TRUE
    /\ f_hist = [samples |-> [k \in 0..(TEMP_HISTORY_SIZE - 1) |-> 0],
                 index |-> 0, count |-> 0]
    /\ f_avg = 0
    /\ f_passed = <<>>

FLoad(v, p) == FLoadWindow(v, p, 0, 0)

KInit == KLoad(0) /\ DLoad("hwmon") /\ FLoad("hwmon", 0)

(***************************************************************************)
(* An EC transaction as the handlers see it: uw_ec_read / uw_ec_write run  *)
(* under ec_lock, so a transaction is one step; ok is its result (0 or     *)
(* -EIO). A failed transaction leaves EC RAM alone.                        *)
(***************************************************************************)
OkChoices == IF nfail < MaxFail THEN BOOLEAN ELSE {TRUE}

Account(t, rw, addr, value, ok, n) ==
    /\ wire' = [by |-> t, rw |-> rw, addr |-> addr, value |-> value, ok |-> ok]
    /\ nops' = [nops EXCEPT ![t] = @ + n]
    /\ callfail' = [callfail EXCEPT ![t] = @ \/ ~ok]
    /\ nfail' = IF ok THEN nfail ELSE nfail + 1

\* uw_ec_write(addr, value) issued by thread t
EcWrite(t, addr, value, ok) ==
    /\ ec' = IF ok THEN [ec EXCEPT ![addr] = value] ELSE ec
    /\ Account(t, "write", addr, value, ok, 1)

\* uw_ec_read(addr, &local): what the local holds afterwards. On failure *value
\* is not assigned: the local keeps what it held, an unassigned one any byte.
ReadResults(cur, addr, ok) ==
    IF ok THEN {ec[addr]}
    ELSE IF cur = Undef THEN Garbage
    ELSE {cur}

EcRead(t, addr, ok) ==
    /\ ec' = ec
    /\ Account(t, "read", addr, 0, ok, 1)

Goto(t, label) == kpc' = [kpc EXCEPT ![t] = label]

\* entering a handler: a new call of thread t
Enter(t, name) ==
    /\ kpc[t] = "idle"
    /\ ~unloaded
    /\ ncalls < MaxCalls
    /\ ncalls' = ncalls + 1
    /\ caller' = [caller EXCEPT ![t] = name]
    /\ nops' = [nops EXCEPT ![t] = 0]
    /\ callfail' = [callfail EXCEPT ![t] = FALSE]

(***************************************************************************)
(* fan1_speed_store / fan2_speed_store and fan_set_speed.                  *)
(***************************************************************************)
\* what is written to the attribute: text kstrtoint rejects, or an int
StoreInts == {0, 300}
StoreBufs(ints) == {[parsed |-> FALSE, n |-> 0]} \cup {[parsed |-> TRUE, n |-> x] : x \in ints}

\* fanN_speed_store up to the call of fan_set_speed(idx, speed): kstrtoint, then
\* the int is passed as the u8 parameter
SpeedStore(t, ints) ==
    \E idx \in {0, 1}, buf \in StoreBufs(ints) :
        /\ Enter(t, "fan_speed_store")
        /\ IF ~buf.parsed
           THEN /\ ret' = [ret EXCEPT ![t] = "EINVAL"]
                /\ UNCHANGED <<kpc, store_speed, fan_idx, speed>>
           ELSE /\ ret' = [ret EXCEPT ![t] = "none"]
                /\ store_speed' = [store_speed EXCEPT ![t] = buf.n]
                /\ fan_idx' = [fan_idx EXCEPT ![t] = idx]
                /\ speed' = [speed EXCEPT ![t] = ToU8(buf.n)]
                /\ Goto(t, "fss_check")
        /\ UNCHANGED <<xvars, ec, fans_initialized, val0, val1, mode, i, wire, nfail, unloaded>>

fan_speed_store(t) == SpeedStore(t, StoreInts)

\* mutant: the handshake is never run from here
fss_check_no_init(t) ==
    /\ kpc[t] = "fss_check"
    /\ Goto(t, "fss_table")
    /\ UNCHANGED <<xvars, ec, fans_initialized, caller, store_speed, fan_idx, speed, val0,
                   val1, mode, i, ret, wire, nops, callfail, nfail, ncalls, unloaded>>

\* fan_set_speed: if (!fans_initialized) init_custom_fan_table();
fss_check(t) ==
    /\ kpc[t] = "fss_check"
    /\ Goto(t, IF ~fans_initialized THEN "ict_entry" ELSE "fss_table")
    /\ UNCHANGED <<xvars, ec, fans_initialized, caller, store_speed, fan_idx, speed, val0,
                   val1, mode, i, ret, wire, nops, callfail, nfail, ncalls, unloaded>>

\* fan_set_speed: clamp and remap, uw_ec_write(table_addr, speed)
fss_table(t) ==
    /\ kpc[t] = "fss_table"
    /\ \E ok \in OkChoices : EcWrite(t, TableAddr(fan_idx[t]), RemapSpeed(speed[t]), ok)
    /\ speed' = [speed EXCEPT ![t] = RemapSpeed(speed[t])]
    /\ i' = [i EXCEPT ![t] = 0]
    /\ Goto(t, "fss_direct")
    /\ UNCHANGED <<xvars, fans_initialized, caller, store_speed, fan_idx, val0, val1, mode, ret,
                   ncalls, unloaded>>

\* mutant: the direct write is repeated only until one succeeds
fss_direct_until_success(t) ==
    /\ kpc[t] = "fss_direct"
    /\ \E ok \in OkChoices :
         /\ EcWrite(t, DirectAddr(fan_idx[t]), speed[t], ok)
         /\ IF i[t] + 1 < DIRECT_WRITES /\ ~ok
            THEN Goto(t, "fss_direct") /\ ret' = ret
            ELSE Goto(t, "idle") /\ ret' = [ret EXCEPT ![t] = "count"]
    /\ i' = [i EXCEPT ![t] = @ + 1]
    /\ UNCHANGED <<xvars, fans_initialized, caller, store_speed, fan_idx, speed, val0, val1, mode,
                   ncalls, unloaded>>

\* fan_set_speed: for (i = 0; i < 5; i++) uw_ec_write(direct_addr, speed); the
\* last pass returns 0 and the store returns count
fss_direct(t) ==
    /\ kpc[t] = "fss_direct"
    /\ \E ok \in OkChoices : EcWrite(t, DirectAddr(fan_idx[t]), speed[t], ok)
    /\ i' = [i EXCEPT ![t] = @ + 1]
    /\ IF i[t] + 1 < DIRECT_WRITES
       THEN Goto(t, "fss_direct") /\ ret' = ret
       ELSE Goto(t, "idle") /\ ret' = [ret EXCEPT ![t] = "count"]
    /\ UNCHANGED <<xvars, fans_initialized, caller, store_speed, fan_idx, speed, val0, val1, mode,
                   ncalls, unloaded>>

(***************************************************************************)
(* init_custom_fan_table.                                                  *)
(***************************************************************************)
\* the frame of a step that touches only EC RAM, the locals and the position
KFrame == UNCHANGED <<xvars, fans_initialized, caller, store_speed, fan_idx, speed, i, ret,
                      ncalls, unloaded>>

\* mutant: the guard is missing
ict_entry_unguarded(t) ==
    /\ kpc[t] = "ict_entry"
    /\ Goto(t, "ict_rd_profile")
    /\ val0' = [val0 EXCEPT ![t] = Undef]
    /\ val1' = [val1 EXCEPT ![t] = Undef]
    /\ UNCHANGED <<xvars, ec, fans_initialized, caller, store_speed, fan_idx, speed, mode, i,
                   ret, wire, nops, callfail, nfail, ncalls, unloaded>>

\* if (fans_initialized) return 0; the locals are declared, not assigned
ict_entry(t) ==
    /\ kpc[t] = "ict_entry"
    /\ Goto(t, IF fans_initialized THEN "ict_return" ELSE "ict_rd_profile")
    /\ val0' = [val0 EXCEPT ![t] = Undef]
    /\ val1' = [val1 EXCEPT ![t] = Undef]
    /\ UNCHANGED <<xvars, ec, fans_initialized, caller, store_speed, fan_idx, speed, mode, i,
                   ret, wire, nops, callfail, nfail, ncalls, unloaded>>

\* return 0 of the guard: back in fan_set_speed with nothing done
ict_return(t) ==
    /\ kpc[t] = "ict_return"
    /\ Goto(t, "fss_table")
    /\ UNCHANGED <<xvars, ec, fans_initialized, caller, store_speed, fan_idx, speed, val0, val1,
                   mode, i, ret, wire, nops, callfail, nfail, ncalls, unloaded>>

\* uw_ec_read(UW_EC_REG_CUSTOM_PROFILE, &val0)
ict_rd_profile(t) ==
    /\ kpc[t] = "ict_rd_profile"
    /\ \E ok \in OkChoices :
         /\ EcRead(t, UW_EC_REG_CUSTOM_PROFILE, ok)
         /\ \E v \in ReadResults(val0[t], UW_EC_REG_CUSTOM_PROFILE, ok) :
              val0' = [val0 EXCEPT ![t] = v]
    /\ Goto(t, "ict_wr_profile_clr")
    /\ UNCHANGED <<val1, mode>>
    /\ KFrame

\* mutant: the bit is set by the first write already
ict_wr_profile_clr_setting(t) ==
    /\ kpc[t] = "ict_wr_profile_clr"
    /\ \E ok \in OkChoices :
         EcWrite(t, UW_EC_REG_CUSTOM_PROFILE, SetBit(val0[t], UW_EC_CUSTOM_PROFILE_BIT), ok)
    /\ val0' = [val0 EXCEPT ![t] = SetBit(@, UW_EC_CUSTOM_PROFILE_BIT)]
    /\ Goto(t, "ict_wr_profile_set")
    /\ UNCHANGED <<val1, mode>>
    /\ KFrame

\* val0 &= ~UW_EC_CUSTOM_PROFILE_BIT; uw_ec_write(UW_EC_REG_CUSTOM_PROFILE, val0)
ict_wr_profile_clr(t) ==
    /\ kpc[t] = "ict_wr_profile_clr"
    /\ \E ok \in OkChoices :
         EcWrite(t, UW_EC_REG_CUSTOM_PROFILE, ClearBit(val0[t], UW_EC_CUSTOM_PROFILE_BIT), ok)
    /\ val0' = [val0 EXCEPT ![t] = ClearBit(@, UW_EC_CUSTOM_PROFILE_BIT)]
    /\ Goto(t, "ict_wr_profile_set")
    /\ UNCHANGED <<val1, mode>>
    /\ KFrame

\* val0 |= UW_EC_CUSTOM_PROFILE_BIT; uw_ec_write(UW_EC_REG_CUSTOM_PROFILE, val0)
ict_wr_profile_set(t) ==
    /\ kpc[t] = "ict_wr_profile_set"
    /\ \E ok \in OkChoices :
         EcWrite(t, UW_EC_REG_CUSTOM_PROFILE, SetBit(val0[t], UW_EC_CUSTOM_PROFILE_BIT), ok)
    /\ val0' = [val0 EXCEPT ![t] = SetBit(@, UW_EC_CUSTOM_PROFILE_BIT)]
    /\ Goto(t, "ict_wr_manual")
    /\ UNCHANGED <<val1, mode>>
    /\ KFrame

\* mutant: a failed write ends the handshake
ict_wr_manual_aborting(t) ==
    /\ kpc[t] = "ict_wr_manual"
    /\ \E ok \in OkChoices :
         /\ EcWrite(t, UW_EC_REG_MANUAL_MODE, 1, ok)
         /\ Goto(t, IF ok THEN "ict_rd_mode" ELSE "ict_done")
    /\ UNCHANGED <<val0, val1, mode>>
    /\ KFrame

\* uw_ec_write(UW_EC_REG_MANUAL_MODE, 0x01)
ict_wr_manual(t) ==
    /\ kpc[t] = "ict_wr_manual"
    /\ \E ok \in OkChoices : EcWrite(t, UW_EC_REG_MANUAL_MODE, 1, ok)
    /\ Goto(t, "ict_rd_mode")
    /\ UNCHANGED <<val0, val1, mode>>
    /\ KFrame

\* uw_ec_read(UW_EC_REG_FAN_MODE, &val0); if (val0 & UW_EC_FAN_MODE_BIT) ...
ict_rd_mode(t) ==
    /\ kpc[t] = "ict_rd_mode"
    /\ \E ok \in OkChoices :
         /\ EcRead(t, UW_EC_REG_FAN_MODE, ok)
         /\ \E v \in ReadResults(val0[t], UW_EC_REG_FAN_MODE, ok) :
              /\ val0' = [val0 EXCEPT ![t] = v]
              /\ Goto(t, IF HasBit(v, UW_EC_FAN_MODE_BIT) THEN "ict_wr_mode"
                         ELSE "ict_rd_tbl0")
    /\ UNCHANGED <<val1, mode>>
    /\ KFrame

\* uw_ec_write(UW_EC_REG_FAN_MODE, val0 & ~UW_EC_FAN_MODE_BIT)
ict_wr_mode(t) ==
    /\ kpc[t] = "ict_wr_mode"
    /\ \E ok \in OkChoices :
         EcWrite(t, UW_EC_REG_FAN_MODE, ClearBit(val0[t], UW_EC_FAN_MODE_BIT), ok)
    /\ Goto(t, "ict_rd_tbl0")
    /\ UNCHANGED <<val0, val1, mode>>
    /\ KFrame

\* uw_ec_read(UW_EC_REG_USE_CUSTOM_FAN_TABLE_0, &val0); if (!((val0 >> 7) & 1)) ...
ict_rd_tbl0(t) ==
    /\ kpc[t] = "ict_rd_tbl0"
    /\ \E ok \in OkChoices :
         /\ EcRead(t, UW_EC_REG_USE_CUSTOM_FAN_TABLE_0, ok)
         /\ \E v \in ReadResults(val0[t], UW_EC_REG_USE_CUSTOM_FAN_TABLE_0, ok) :
              /\ val0' = [val0 EXCEPT ![t] = v]
              /\ Goto(t, IF ~HasBit(v, TABLE_0_BIT) THEN "ict_wr_tbl0" ELSE "ict_cpu_end")
    /\ UNCHANGED <<val1, mode>>
    /\ KFrame

\* uw_ec_write(UW_EC_REG_USE_CUSTOM_FAN_TABLE_0, val0 | (1 << 7))
ict_wr_tbl0(t) ==
    /\ kpc[t] = "ict_wr_tbl0"
    /\ \E ok \in OkChoices :
         EcWrite(t, UW_EC_REG_USE_CUSTOM_FAN_TABLE_0, SetBit(val0[t], TABLE_0_BIT), ok)
    /\ Goto(t, "ict_cpu_end")
    /\ UNCHANGED <<val0, val1, mode>>
    /\ KFrame

\* one write of the zone-0 block: uw_ec_write(addr, value), then on to next
Zone0Write(t, label, addr, value, next) ==
    /\ kpc[t] = label
    /\ \E ok \in OkChoices : EcWrite(t, addr, value, ok)
    /\ Goto(t, next)
    /\ UNCHANGED <<val0, val1, mode>>
    /\ KFrame

\* CPU fan table - zone 0
ict_cpu_end(t) ==
    Zone0Write(t, "ict_cpu_end", UW_EC_REG_CPU_FAN_TABLE_END_TEMP, CPU_ZONE0_END,
               "ict_cpu_start")
ict_cpu_start(t) ==
    Zone0Write(t, "ict_cpu_start", UW_EC_REG_CPU_FAN_TABLE_START_TEMP, 0, "ict_cpu_speed")
ict_cpu_speed(t) ==
    Zone0Write(t, "ict_cpu_speed", UW_EC_REG_CPU_FAN_TABLE_FAN_SPEED, 0, "ict_gpu_end")
\* GPU fan table - zone 0
ict_gpu_end(t) ==
    Zone0Write(t, "ict_gpu_end", UW_EC_REG_GPU_FAN_TABLE_END_TEMP, GPU_ZONE0_END,
               "ict_gpu_start")
ict_gpu_start(t) ==
    Zone0Write(t, "ict_gpu_start", UW_EC_REG_GPU_FAN_TABLE_START_TEMP, 0, "ict_gpu_speed")
ict_gpu_speed(t) ==
    Zone0Write(t, "ict_gpu_speed", UW_EC_REG_GPU_FAN_TABLE_FAN_SPEED, 0, "ict_fill")

\* the subsets of S with at most k elements
RECURSIVE UpTo(_, _)
UpTo(S, k) ==
    IF k = 0 THEN {{}}
    ELSE {{}} \cup {T \cup {x} : x \in S, T \in UpTo(S, k - 1)}

\* the dummy-zone writes that are let fail: those of the first and the last pass
FillFailRegs == {b + z : b \in TableBases, z \in {1, LAST_ZONE}}

\* for (i = 1; i <= 15; i++): the six dummy-zone writes of every pass, the writes
\* in failed being the ones that fail; no other code touches these registers
ict_fill(t) ==
    /\ kpc[t] = "ict_fill"
    /\ \E failed \in UpTo(FillFailRegs, MaxFail - nfail) :
         /\ ec' = [a \in EcAddrs |->
                     IF a \in DummyRegs /\ a \notin failed THEN DummyValue(a) ELSE ec[a]]
         /\ wire' = [by |-> t, rw |-> "write",
                     addr |-> UW_EC_REG_GPU_FAN_TABLE_FAN_SPEED + LAST_ZONE,
                     value |-> FAN_SPEED_MAX,
                     ok |-> (UW_EC_REG_GPU_FAN_TABLE_FAN_SPEED + LAST_ZONE) \notin failed]
         /\ nops' = [nops EXCEPT ![t] = @ + Cardinality(DummyRegs)]
         /\ callfail' = [callfail EXCEPT ![t] = @ \/ failed # {}]
         /\ nfail' = nfail + Cardinality(failed)
    /\ Goto(t, "ict_rd_tbl1")
    /\ UNCHANGED <<val0, val1, mode>>
    /\ KFrame

\* uw_ec_read(UW_EC_REG_USE_CUSTOM_FAN_TABLE_1, &val1); if (!((val1 >> 2) & 1)) ...
ict_rd_tbl1(t) ==
    /\ kpc[t] = "ict_rd_tbl1"
    /\ \E ok \in OkChoices :
         /\ EcRead(t, UW_EC_REG_USE_CUSTOM_FAN_TABLE_1, ok)
         /\ \E v \in ReadResults(val1[t], UW_EC_REG_USE_CUSTOM_FAN_TABLE_1, ok) :
              /\ val1' = [val1 EXCEPT ![t] = v]
              /\ Goto(t, IF ~HasBit(v, TABLE_1_BIT) THEN "ict_wr_tbl1" ELSE "ict_done")
    /\ UNCHANGED <<val0, mode>>
    /\ KFrame

\* uw_ec_write(UW_EC_REG_USE_CUSTOM_FAN_TABLE_1, val1 | (1 << 2))
ict_wr_tbl1(t) ==
    /\ kpc[t] = "ict_wr_tbl1"
    /\ \E ok \in OkChoices :
         EcWrite(t, UW_EC_REG_USE_CUSTOM_FAN_TABLE_1, SetBit(val1[t], TABLE_1_BIT), ok)
    /\ Goto(t, "ict_done")
    /\ UNCHANGED <<val0, val1, mode>>
    /\ KFrame

\* fans_initialized = true; return 0; back in fan_set_speed
ict_done(t) ==
    /\ kpc[t] = "ict_done"
    /\ fans_initialized' = TRUE
    /\ Goto(t, "fss_table")
    /\ UNCHANGED <<xvars, ec, caller, store_speed, fan_idx, speed, val0, val1, mode, i, ret,
                   wire, nops, callfail, nfail, ncalls, unloaded>>

(***************************************************************************)
(* fan_set_auto and its callers fan_auto_store and uniwill_fan_exit.       *)
(***************************************************************************)
\* the locals of fan_set_auto are declared, not assigned
AutoLocals(t) ==
    /\ val0' = [val0 EXCEPT ![t] = Undef]
    /\ val1' = [val1 EXCEPT ![t] = Undef]
    /\ mode' = [mode EXCEPT ![t] = Undef]

\* fan_auto_store: kstrtoint, then if (val) fan_set_auto(); return count
AutoBufs == {[parsed |-> FALSE, n |-> 0], [parsed |-> TRUE, n |-> 0],
             [parsed |-> TRUE, n |-> 1]}

fan_auto_store(t) ==
    \E buf \in AutoBufs :
        /\ Enter(t, "fan_auto_store")
        /\ IF ~buf.parsed
           THEN ret' = [ret EXCEPT ![t] = "EINVAL"] /\ UNCHANGED <<kpc, val0, val1, mode>>
           ELSE IF buf.n = 0
           THEN ret' = [ret EXCEPT ![t] = "count"] /\ UNCHANGED <<kpc, val0, val1, mode>>
           ELSE /\ ret' = [ret EXCEPT ![t] = "none"]
                /\ AutoLocals(t)
                /\ Goto(t, "fsa_rd_tbl1")
        /\ UNCHANGED <<xvars, ec, fans_initialized, store_speed, fan_idx, speed, i, wire, nfail,
                       unloaded>>

\* uniwill_fan_exit: fan_set_auto() first
uniwill_fan_exit(t) ==
    /\ Enter(t, "uniwill_fan_exit")
    /\ AutoLocals(t)
    /\ Goto(t, "fsa_rd_tbl1")
    /\ UNCHANGED <<xvars, ec, fans_initialized, store_speed, fan_idx, speed, i, ret, wire, nfail,
                   unloaded>>

\* mutant: table 0 is looked at first
fsa_rd_tbl1_table0_first(t) ==
    /\ kpc[t] = "fsa_rd_tbl1"
    /\ \E ok \in OkChoices :
         /\ EcRead(t, UW_EC_REG_USE_CUSTOM_FAN_TABLE_0, ok)
         /\ \E v \in ReadResults(val1[t], UW_EC_REG_USE_CUSTOM_FAN_TABLE_0, ok) :
              /\ val1' = [val1 EXCEPT ![t] = v]
              /\ Goto(t, IF HasBit(v, TABLE_0_BIT) THEN "fsa_wr_tbl1" ELSE "fsa_rd_tbl0")
    /\ UNCHANGED <<val0, mode>>
    /\ KFrame

\* uw_ec_read(UW_EC_REG_USE_CUSTOM_FAN_TABLE_1, &val1); if ((val1 >> 2) & 1) ...
fsa_rd_tbl1(t) ==
    /\ kpc[t] = "fsa_rd_tbl1"
    /\ \E ok \in OkChoices :
         /\ EcRead(t, UW_EC_REG_USE_CUSTOM_FAN_TABLE_1, ok)
         /\ \E v \in ReadResults(val1[t], UW_EC_REG_USE_CUSTOM_FAN_TABLE_1, ok) :
              /\ val1' = [val1 EXCEPT ![t] = v]
              /\ Goto(t, IF HasBit(v, TABLE_1_BIT) THEN "fsa_wr_tbl1" ELSE "fsa_rd_tbl0")
    /\ UNCHANGED <<val0, mode>>
    /\ KFrame

\* uw_ec_write(UW_EC_REG_USE_CUSTOM_FAN_TABLE_1, val1 & ~(1 << 2))
fsa_wr_tbl1(t) ==
    /\ kpc[t] = "fsa_wr_tbl1"
    /\ \E ok \in OkChoices :
         EcWrite(t, UW_EC_REG_USE_CUSTOM_FAN_TABLE_1, ClearBit(val1[t], TABLE_1_BIT), ok)
    /\ Goto(t, "fsa_rd_tbl0")
    /\ UNCHANGED <<val0, val1, mode>>
    /\ KFrame

\* uw_ec_read(UW_EC_REG_USE_CUSTOM_FAN_TABLE_0, &val0); if ((val0 >> 7) & 1) ...
fsa_rd_tbl0(t) ==
    /\ kpc[t] = "fsa_rd_tbl0"
    /\ \E ok \in OkChoices :
         /\ EcRead(t, UW_EC_REG_USE_CUSTOM_FAN_TABLE_0, ok)
         /\ \E v \in ReadResults(val0[t], UW_EC_REG_USE_CUSTOM_FAN_TABLE_0, ok) :
              /\ val0' = [val0 EXCEPT ![t] = v]
              /\ Goto(t, IF HasBit(v, TABLE_0_BIT) THEN "fsa_wr_tbl0" ELSE "fsa_rd_mode")
    /\ UNCHANGED <<val1, mode>>
    /\ KFrame

\* uw_ec_write(UW_EC_REG_USE_CUSTOM_FAN_TABLE_0, val0 & ~(1 << 7))
fsa_wr_tbl0(t) ==
    /\ kpc[t] = "fsa_wr_tbl0"
    /\ \E ok \in OkChoices :
         EcWrite(t, UW_EC_REG_USE_CUSTOM_FAN_TABLE_0, ClearBit(val0[t], TABLE_0_BIT), ok)
    /\ Goto(t, "fsa_rd_mode")
    /\ UNCHANGED <<val0, val1, mode>>
    /\ KFrame

\* uw_ec_read(UW_EC_REG_FAN_MODE, &mode); if (mode & UW_EC_FAN_MODE_BIT) ...
fsa_rd_mode(t) ==
    /\ kpc[t] = "fsa_rd_mode"
    /\ \E ok \in OkChoices :
         /\ EcRead(t, UW_EC_REG_FAN_MODE, ok)
         /\ \E v \in ReadResults(mode[t], UW_EC_REG_FAN_MODE, ok) :
              /\ mode' = [mode EXCEPT ![t] = v]
              /\ Goto(t, IF HasBit(v, UW_EC_FAN_MODE_BIT) THEN "fsa_wr_mode"
                         ELSE "fsa_wr_manual")
    /\ UNCHANGED <<val0, val1>>
    /\ KFrame

\* uw_ec_write(UW_EC_REG_FAN_MODE, mode & ~UW_EC_FAN_MODE_BIT)
fsa_wr_mode(t) ==
    /\ kpc[t] = "fsa_wr_mode"
    /\ \E ok \in OkChoices :
         EcWrite(t, UW_EC_REG_FAN_MODE, ClearBit(mode[t], UW_EC_FAN_MODE_BIT), ok)
    /\ Goto(t, "fsa_wr_manual")
    /\ UNCHANGED <<val0, val1, mode>>
    /\ KFrame

\* mutant: the manual-override register is left alone
fsa_wr_manual_skipped(t) ==
    /\ kpc[t] = "fsa_wr_manual"
    /\ Goto(t, "fsa_rd_profile")
    /\ UNCHANGED <<ec, wire, nops, callfail, nfail, val0, val1, mode>>
    /\ KFrame

\* uw_ec_write(UW_EC_REG_MANUAL_MODE, 0x00)
fsa_wr_manual(t) ==
    /\ kpc[t] = "fsa_wr_manual"
    /\ \E ok \in OkChoices : EcWrite(t, UW_EC_REG_MANUAL_MODE, 0, ok)
    /\ Goto(t, "fsa_rd_profile")
    /\ UNCHANGED <<val0, val1, mode>>
    /\ KFrame

\* uw_ec_read(UW_EC_REG_CUSTOM_PROFILE, &val0); if (val0 & UW_EC_CUSTOM_PROFILE_BIT) ...
fsa_rd_profile(t) ==
    /\ kpc[t] = "fsa_rd_profile"
    /\ \E ok \in OkChoices :
         /\ EcRead(t, UW_EC_REG_CUSTOM_PROFILE, ok)
         /\ \E v \in ReadResults(val0[t], UW_EC_REG_CUSTOM_PROFILE, ok) :
              /\ val0' = [val0 EXCEPT ![t] = v]
              /\ Goto(t, IF HasBit(v, UW_EC_CUSTOM_PROFILE_BIT) THEN "fsa_wr_profile"
                         ELSE "fsa_done")
    /\ UNCHANGED <<val1, mode>>
    /\ KFrame

\* uw_ec_write(UW_EC_REG_CUSTOM_PROFILE, val0 & ~UW_EC_CUSTOM_PROFILE_BIT)
fsa_wr_profile(t) ==
    /\ kpc[t] = "fsa_wr_profile"
    /\ \E ok \in OkChoices :
         EcWrite(t, UW_EC_REG_CUSTOM_PROFILE, ClearBit(val0[t], UW_EC_CUSTOM_PROFILE_BIT), ok)
    /\ Goto(t, "fsa_done")
    /\ UNCHANGED <<val0, val1, mode>>
    /\ KFrame

\* fans_initialized = false; return 0; fan_auto_store then returns count, and
\* uniwill_fan_exit removes the attributes and the device
fsa_done(t) ==
    /\ kpc[t] = "fsa_done"
    /\ fans_initialized' = FALSE
    /\ Goto(t, "idle")
    /\ ret' = [ret EXCEPT ![t] = IF caller[t] = "fan_auto_store" THEN "count" ELSE @]
    /\ unloaded' = (caller[t] = "uniwill_fan_exit")
    /\ UNCHANGED <<xvars, ec, caller, store_speed, fan_idx, speed, val0, val1, mode, i, wire,
                   nops, callfail, nfail, ncalls>>

(***************************************************************************)
(* The driver with one caller at a time (thread 1).                        *)
(***************************************************************************)
KStep(t) ==
    \/ fan_speed_store(t)
    \/ fss_check(t)
    \/ fss_table(t)
    \/ fss_direct(t)
    \/ ict_entry(t)
    \/ ict_rd_profile(t)
    \/ ict_wr_profile_clr(t)
    \/ ict_wr_profile_set(t)
    \/ ict_wr_manual(t)
    \/ ict_rd_mode(t)
    \/ ict_wr_mode(t)
    \/ ict_rd_tbl0(t)
    \/ ict_wr_tbl0(t)
    \/ ict_cpu_end(t)
    \/ ict_cpu_start(t)
    \/ ict_cpu_speed(t)
    \/ ict_gpu_end(t)
    \/ ict_gpu_start(t)
    \/ ict_gpu_speed(t)
    \/ ict_fill(t)
    \/ ict_rd_tbl1(t)
    \/ ict_wr_tbl1(t)
    \/ ict_done(t)
    \/ fan_auto_store(t)
    \/ uniwill_fan_exit(t)
    \/ fsa_rd_tbl1(t)
    \/ fsa_wr_tbl1(t)
    \/ fsa_rd_tbl0(t)
    \/ fsa_wr_tbl0(t)
    \/ fsa_rd_mode(t)
    \/ fsa_wr_mode(t)
    \/ fsa_wr_manual(t)
    \/ fsa_rd_profile(t)
    \/ fsa_wr_profile(t)
    \/ fsa_done(t)

KNext == KStep(1)

SpecK == KInit /\ [][KNext]_vars

(***************************************************************************)
(* The driver with concurrent callers: sysfs stores of two tasks and the   *)
(* unload interleave at every EC transaction.                              *)
(***************************************************************************)
CNext == \E t \in Threads : KStep(t) \/ ict_return(t)

\* a reliable transport: no transaction is left to fail
CInit == KLoad(MaxFail) /\ DLoad("hwmon") /\ FLoad("hwmon", 0)

SpecC == CInit /\ [][CNext]_vars

(***************************************************************************)
(* One store of any int, from the freshly loaded driver, over a reliable   *)
(* transport: the values fan_set_speed puts on the wire.                   *)
(***************************************************************************)
\* how far beyond 0..255 the ints written to the attribute go
Over == 64
WideInts == (0 - Over)..(255 + Over)

fan_speed_store_any(t) == ncalls = 0 /\ SpeedStore(t, WideInts)

VNext ==
    \/ fan_speed_store_any(1)
    \/ fss_check(1)
    \/ fss_table(1)
    \/ fss_direct(1)
    \/ ict_entry(1)
    \/ ict_rd_profile(1)
    \/ ict_wr_profile_clr(1)
    \/ ict_wr_profile_set(1)
    \/ ict_wr_manual(1)
    \/ ict_rd_mode(1)
    \/ ict_wr_mode(1)
    \/ ict_rd_tbl0(1)
    \/ ict_wr_tbl0(1)
    \/ ict_cpu_end(1)
    \/ ict_cpu_start(1)
    \/ ict_cpu_speed(1)
    \/ ict_gpu_end(1)
    \/ ict_gpu_start(1)
    \/ ict_gpu_speed(1)
    \/ ict_fill(1)
    \/ ict_rd_tbl1(1)
    \/ ict_wr_tbl1(1)
    \/ ict_done(1)

SpecV == CInit /\ [][VNext]_vars

(***************************************************************************)
(* The register transport: uw_ec_read and uw_ec_write step by step, with   *)
(* concurrent callers.                                                     *)
(***************************************************************************)
\* the registers and the values the callers of this part use
TAddrs == {UW_EC_REG_MANUAL_MODE, UW_EC_REG_FAN1_SPEED}
TValues == {0, 1}

\* what the handler state does while only the transport is looked at
TFrame == UNCHANGED <<fans_initialized, kpc, caller, store_speed, fan_idx, speed, val0,
                      val1, mode, i, ret, wire, nops, callfail, nfail, ncalls, unloaded,
                      dvars, fvars>>

\* a caller enters uw_ec_read(addr, &value): int ret = 0
uw_ec_read_call(t) ==
    /\ tpc[t] = "t_idle"
    /\ \E addr \in TAddrs : t_addr' = [t_addr EXCEPT ![t] = addr]
    /\ t_kind' = [t_kind EXCEPT ![t] = "read"]
    /\ t_ret' = [t_ret EXCEPT ![t] = "ok"]
    /\ attempts' = [attempts EXCEPT ![t] = 0]
    /\ nfailed' = [nfailed EXCEPT ![t] = 0]
    /\ tpc' = [tpc EXCEPT ![t] = "rd_lock"]
    /\ UNCHANGED <<ec, ec_lock, t_value, t_out, retries>>
    /\ TFrame

\* mutant: uw_ec_read without mutex_lock's wait
rd_lock_unguarded(t) ==
    /\ tpc[t] = "rd_lock"
    /\ ec_lock' = t
    /\ tpc' = [tpc EXCEPT ![t] = "rd_eval"]
    /\ UNCHANGED <<ec, t_kind, t_addr, t_value, t_out, retries, t_ret, attempts, nfailed>>
    /\ TFrame

\* mutex_lock(&ec_lock)
rd_lock(t) ==
    /\ tpc[t] = "rd_lock"
    /\ ec_lock = 0
    /\ ec_lock' = t
    /\ tpc' = [tpc EXCEPT ![t] = "rd_eval"]
    /\ UNCHANGED <<ec, t_kind, t_addr, t_value, t_out, retries, t_ret, attempts, nfailed>>
    /\ TFrame

\* mutant: a failed read zeroes the caller's byte
rd_eval_zeroing(t) ==
    /\ tpc[t] = "rd_eval"
    /\ attempts' = [attempts EXCEPT ![t] = @ + 1]
    /\ \E outcome \in {"ok", "acpi_failure", "bad_reply"} :
         IF outcome = "ok"
         THEN /\ t_out' = [t_out EXCEPT ![t] = ec[t_addr[t]]]
              /\ UNCHANGED <<t_ret, nfailed>>
         ELSE /\ t_ret' = [t_ret EXCEPT ![t] = "EIO"]
              /\ nfailed' = [nfailed EXCEPT ![t] = @ + 1]
              /\ t_out' = [t_out EXCEPT ![t] = 0]
    /\ tpc' = [tpc EXCEPT ![t] = "rd_unlock"]
    /\ UNCHANGED <<ec, ec_lock, t_kind, t_addr, t_value, retries>>
    /\ TFrame

\* wmi_evaluate_method: on ACPI_FAILURE ret = -EIO and goto out; a reply that is
\* no buffer of at least one byte gives ret = -EIO; else *value is the byte
rd_eval(t) ==
    /\ tpc[t] = "rd_eval"
    /\ attempts' = [attempts EXCEPT ![t] = @ + 1]
    /\ \E outcome \in {"ok", "acpi_failure", "bad_reply"} :
         IF outcome = "ok"
         THEN /\ t_out' = [t_out EXCEPT ![t] = ec[t_addr[t]]]
              /\ UNCHANGED <<t_ret, nfailed>>
         ELSE /\ t_ret' = [t_ret EXCEPT ![t] = "EIO"]
              /\ nfailed' = [nfailed EXCEPT ![t] = @ + 1]
              /\ t_out' = t_out
    /\ tpc' = [tpc EXCEPT ![t] = "rd_unlock"]
    /\ UNCHANGED <<ec, ec_lock, t_kind, t_addr, t_value, retries>>
    /\ TFrame

\* out: mutex_unlock(&ec_lock); return ret
rd_unlock(t) ==
    /\ tpc[t] = "rd_unlock"
    /\ ec_lock' = 0
    /\ tpc' = [tpc EXCEPT ![t] = "t_idle"]
    /\ UNCHANGED <<ec, t_kind, t_addr, t_value, t_out, retries, t_ret, attempts, nfailed>>
    /\ TFrame

\* a caller enters uw_ec_write(addr, value): int ret = 0, retries = 3
uw_ec_write_call(t) ==
    /\ tpc[t] = "t_idle"
    /\ \E addr \in TAddrs, value \in TValues :
         /\ t_addr' = [t_addr EXCEPT ![t] = addr]
         /\ t_value' = [t_value EXCEPT ![t] = value]
    /\ t_kind' = [t_kind EXCEPT ![t] = "write"]
    /\ t_ret' = [t_ret EXCEPT ![t] = "ok"]
    /\ retries' = [retries EXCEPT ![t] = WRITE_RETRIES]
    /\ attempts' = [attempts EXCEPT ![t] = 0]
    /\ nfailed' = [nfailed EXCEPT ![t] = 0]
    /\ tpc' = [tpc EXCEPT ![t] = "wr_lock"]
    /\ UNCHANGED <<ec, ec_lock, t_out>>
    /\ TFrame

\* mutex_lock(&ec_lock)
wr_lock(t) ==
    /\ tpc[t] = "wr_lock"
    /\ ec_lock = 0
    /\ ec_lock' = t
    /\ tpc' = [tpc EXCEPT ![t] = "wr_eval"]
    /\ UNCHANGED <<ec, t_kind, t_addr, t_value, t_out, retries, t_ret, attempts, nfailed>>
    /\ TFrame

\* mutant: if (retries-- > 0) goto retry
wr_eval_post_decrement(t) ==
    /\ tpc[t] = "wr_eval"
    /\ attempts' = [attempts EXCEPT ![t] = @ + 1]
    /\ \E ok \in BOOLEAN :
         IF ok
         THEN /\ ec' = [ec EXCEPT ![t_addr[t]] = t_value[t]]
              /\ tpc' = [tpc EXCEPT ![t] = "wr_unlock"]
              /\ UNCHANGED <<retries, t_ret, nfailed>>
         ELSE /\ ec' = ec
              /\ nfailed' = [nfailed EXCEPT ![t] = @ + 1]
              /\ retries' = [retries EXCEPT ![t] = @ - 1]
              /\ IF retries[t] > 0
                 THEN UNCHANGED <<tpc, t_ret>>
                 ELSE /\ t_ret' = [t_ret EXCEPT ![t] = "EIO"]
                      /\ tpc' = [tpc EXCEPT ![t] = "wr_unlock"]
    /\ UNCHANGED <<ec_lock, t_kind, t_addr, t_value, t_out>>
    /\ TFrame

\* retry: wmi_evaluate_method; on ACPI_FAILURE, if (--retries > 0) msleep(50) and
\* goto retry, else ret = -EIO
wr_eval(t) ==
    /\ tpc[t] = "wr_eval"
    /\ attempts' = [attempts EXCEPT ![t] = @ + 1]
    /\ \E ok \in BOOLEAN :
         IF ok
         THEN /\ ec' = [ec EXCEPT ![t_addr[t]] = t_value[t]]
              /\ tpc' = [tpc EXCEPT ![t] = "wr_unlock"]
              /\ UNCHANGED <<retries, t_ret, nfailed>>
         ELSE /\ ec' = ec
              /\ nfailed' = [nfailed EXCEPT ![t] = @ + 1]
              /\ retries' = [retries EXCEPT ![t] = @ - 1]
              /\ IF retries[t] - 1 > 0
                 THEN UNCHANGED <<tpc, t_ret>>
                 ELSE /\ t_ret' = [t_ret EXCEPT ![t] = "EIO"]
                      /\ tpc' = [tpc EXCEPT ![t] = "wr_unlock"]
    /\ UNCHANGED <<ec_lock, t_kind, t_addr, t_value, t_out>>
    /\ TFrame

\* kfree(out.pointer); mutex_unlock(&ec_lock); return ret
wr_unlock(t) ==
    /\ tpc[t] = "wr_unlock"
    /\ ec_lock' = 0
    /\ tpc' = [tpc EXCEPT ![t] = "t_idle"]
    /\ UNCHANGED <<ec, t_kind, t_addr, t_value, t_out, retries, t_ret, attempts, nfailed>>
    /\ TFrame

TNext ==
    \E t \in Threads :
        \/ uw_ec_read_call(t)
        \/ rd_lock(t)
        \/ rd_eval(t)
        \/ rd_unlock(t)
        \/ uw_ec_write_call(t)
        \/ wr_lock(t)
        \/ wr_eval(t)
        \/ wr_unlock(t)

\* the transport is looked at on one register image
TInit == KInit /\ ec = EcImage(1)

SpecT == TInit /\ [][TNext]_vars

\* C9: a uw_ec_write call makes at most 3 transport attempts; once it has
\* returned, the attempts are the failed ones plus, on success, the one that
\* succeeded (it stopped at the first success), the result is -EIO exactly when
\* 3 attempts failed, and ec_lock is not held by the caller; the lock is held
\* only between mutex_lock and mutex_unlock.
C9_WriteBoundedRetry ==
    \A t \in Threads :
        /\ t_kind[t] = "write" => attempts[t] <= 3
        /\ (t_kind[t] = "write" /\ tpc[t] = "t_idle") =>
              /\ ec_lock # t
              /\ (t_ret[t] = "EIO") <=> (nfailed[t] = 3)
              /\ t_ret[t] = "EIO" => attempts[t] = 3
              /\ t_ret[t] = "ok" => (attempts[t] = nfailed[t] + 1 /\ nfailed[t] <= 2)
        /\ ec_lock = t => tpc[t] \in {"rd_eval", "rd_unlock", "wr_eval", "wr_unlock"}

\* C9 witness: a write has returned -EIO after three failed attempts, the lock
\* free again.
C9_Witness ==
    /\ t_kind[1] = "write"
    /\ tpc[1] = "t_idle"
    /\ t_ret[1] = "EIO"
    /\ attempts[1] = 3
    /\ ec_lock = 0

\* C10: uw_ec_read makes exactly one transport attempt: the step after the
\* attempt is the unlock, a failed attempt (failed call or malformed reply) gives
\* -EIO and leaves the caller's byte as it was, and the return releases ec_lock.
C10_ReadSingleAttempt ==
    [][\A t \in Threads :
          /\ (tpc[t] = "rd_eval" /\ tpc'[t] # "rd_eval") =>
                /\ tpc'[t] = "rd_unlock"
                /\ attempts'[t] = 1
                /\ (t_ret'[t] = "EIO") <=> (nfailed'[t] = 1)
                /\ t_ret'[t] = "EIO" => t_out'[t] = t_out[t]
                /\ t_ret'[t] = "ok" => t_out'[t] = ec[t_addr[t]]
          /\ (tpc[t] = "rd_unlock" /\ tpc'[t] # "rd_unlock") =>
                /\ tpc'[t] = "t_idle"
                /\ ec_lock = t
                /\ ec_lock' = 0
                /\ attempts'[t] = 1]_vars

\* C10 witness: a read has returned -EIO after one attempt, the caller's byte
\* still holding what an earlier read stored, and the lock is free.
C10_Witness ==
    /\ t_kind[1] = "read"
    /\ tpc[1] = "t_idle"
    /\ t_ret[1] = "EIO"
    /\ attempts[1] = 1
    /\ t_out[1] # Undef
    /\ ec_lock = 0

\* the transport with every call on the manual-override register, where every
\* started call runs on and returns, and a caller waiting in mutex_lock gets the
\* mutex: the kernel mutex hands the lock to a waiter rather than let later
\* lockers pass it for ever
OnManualMode == \A t \in Threads : t_addr'[t] \in {0, UW_EC_REG_MANUAL_MODE}

TFNext ==
    \E t \in Threads :
        \/ uw_ec_read_call(t) /\ OnManualMode
        \/ rd_lock(t)
        \/ rd_eval(t)
        \/ rd_unlock(t)
        \/ uw_ec_write_call(t) /\ OnManualMode
        \/ wr_lock(t)
        \/ wr_eval(t)
        \/ wr_unlock(t)

SpecTF ==
    /\ TInit
    /\ [][TFNext]_vars
    /\ \A t \in Threads :
         /\ WF_vars(rd_eval(t))
         /\ WF_vars(rd_unlock(t))
         /\ WF_vars(wr_eval(t))
         /\ WF_vars(wr_unlock(t))
         /\ SF_vars(rd_lock(t))
         /\ SF_vars(wr_lock(t))

\* the callers that are between mutex_lock and mutex_unlock
InTransaction == {t \in Threads : tpc[t] \in {"rd_eval", "rd_unlock", "wr_eval", "wr_unlock"}}

\* C11: at most one caller is between mutex_lock and mutex_unlock, and it is the
\* holder of ec_lock; every transport attempt and every change of EC RAM is made
\* by the holder, who keeps the lock over the step unless the step is its
\* unlock, so no other caller's attempt falls between the attempts of a write;
\* and a caller waiting for the lock gets it.
C11_OneTransactionInFlight ==
    /\ [](\A t \in Threads : t \in InTransaction <=> ec_lock = t)
    /\ [][\A t \in Threads :
            /\ (attempts'[t] # attempts[t] /\ tpc[t] \in {"rd_eval", "wr_eval"}) =>
                  (ec_lock = t /\ ec_lock' = t)
            /\ (tpc[t] = "wr_eval" /\ tpc'[t] = "wr_eval") =>
                  \A u \in Threads \ {t} :
                      attempts'[u] = attempts[u] \/ tpc[u] \notin {"rd_eval", "wr_eval"}
            /\ (ec' # ec) => (ec_lock # 0 /\ tpc[ec_lock] = "wr_eval")]_vars
    /\ \A t \in Threads : (tpc[t] \in {"rd_lock", "wr_lock"}) ~> (ec_lock = t)

\* C11 witness: one caller is between the second and the third attempt of a
\* write while the other waits in mutex_lock.
C11_Witness ==
    /\ tpc[1] = "wr_eval"
    /\ attempts[1] = 2
    /\ ec_lock = 1
    /\ tpc[2] \in {"rd_lock", "wr_lock"}

(***************************************************************************)
(* The fan control daemons: the hwmon daemon and the legacy daemon.        *)
(***************************************************************************)
MaxTicks == 3
MaxSignals == 2

\* the hwmon daemon's curve
HW_TEMP_OFF == 55
HW_TEMP_SILENT == 61
HW_TEMP_LOW == 67
HW_TEMP_MED == 73
HW_TEMP_HIGH == 80
HW_TEMP_MAX == 90
HW_HYSTERESIS == 8
HW_SPEED_OFF == 0
HW_SPEED_MIN == 39
HW_SPEED_LOW == 96
HW_SPEED_MED == 128
HW_SPEED_HIGH == 192
HW_SPEED_MAX == 255

\* the legacy daemon's curve
LG_TEMP_SILENT == 62
LG_TEMP_LOW == 70
LG_TEMP_MED == 78
LG_TEMP_HIGH == 86
LG_TEMP_MAX == 92
LG_HYSTERESIS == 6
LG_SPEED_MIN == 25
LG_SPEED_LOW == 50
LG_SPEED_MED == 100
LG_SPEED_HIGH == 150
LG_SPEED_MAX == 200

Signals == {"SIGINT", "SIGTERM"}

\* sysfs_write_int: fopen fails (-1, nothing stored), or the value is printed
\* to the stream (0) and the node takes it or refuses it when fclose flushes
WriteOutcomes == {"written", "open_failed", "store_failed"}
WriteRet(o) == IF o = "open_failed" THEN -1 ELSE 0
Stored(node, val, o) == IF o = "written" THEN [sysfs EXCEPT ![node] = val] ELSE sysfs

\* what a temp1_input node may give: millidegrees, or -1 for a failed read
Millis == {40000, 64500, 95000}
Readings(found) == IF found THEN Millis \cup {-1} ELSE {-1}

\* hwmon get_temp: -1 for a failed read, else degrees
get_temp(m) == IF m < 0 THEN -1 ELSE m \div 1000

RECURSIVE SumSamples(_, _)
SumSamples(samples, n) == IF n = 0 THEN 0 ELSE samples[n - 1] + SumSamples(samples, n - 1)

\* mutant: the index is not wrapped
HistoryAddNoWrap(hist, t) ==
    [samples |-> [hist.samples EXCEPT ![hist.index] = t],
     index |-> hist.index + 1,
     count |-> IF hist.count < TEMP_HISTORY_SIZE THEN hist.count + 1 ELSE hist.count]

\* smooth_temp: the history after the insert, and the average it returns
HistoryAdd(hist, t) ==
    [samples |-> [hist.samples EXCEPT ![hist.index] = t],
     index |-> (hist.index + 1) % TEMP_HISTORY_SIZE,
     count |-> IF hist.count < TEMP_HISTORY_SIZE THEN hist.count + 1 ELSE hist.count]
\* mutant: the sum is always divided by the window size
smooth_temp_full_window(hist, t) ==
    SumSamples(HistoryAdd(hist, t).samples, HistoryAdd(hist, t).count) \div TEMP_HISTORY_SIZE

smooth_temp(hist, t) ==
    SumSamples(HistoryAdd(hist, t).samples, HistoryAdd(hist, t).count)
        \div HistoryAdd(hist, t).count

\* mutant: the LOW..MED segment starts from SPEED_MIN
hw_interpolate_speed_wrong_base(t) ==
    IF t <= HW_TEMP_OFF THEN HW_SPEED_OFF
    ELSE IF t <= HW_TEMP_SILENT THEN HW_SPEED_MIN
    ELSE IF t <= HW_TEMP_LOW
         THEN HW_SPEED_MIN + ((HW_SPEED_LOW - HW_SPEED_MIN) * (t - HW_TEMP_SILENT))
                                \div (HW_TEMP_LOW - HW_TEMP_SILENT)
    ELSE IF t <= HW_TEMP_MED
         THEN HW_SPEED_MIN + ((HW_SPEED_MED - HW_SPEED_LOW) * (t - HW_TEMP_LOW))
                                \div (HW_TEMP_MED - HW_TEMP_LOW)
    ELSE IF t <= HW_TEMP_HIGH
         THEN HW_SPEED_MED + ((HW_SPEED_HIGH - HW_SPEED_MED) * (t - HW_TEMP_MED))
                                \div (HW_TEMP_HIGH - HW_TEMP_MED)
    ELSE IF t <= HW_TEMP_MAX
         THEN HW_SPEED_HIGH + ((HW_SPEED_MAX - HW_SPEED_HIGH) * (t - HW_TEMP_HIGH))
                                \div (HW_TEMP_MAX - HW_TEMP_HIGH)
    ELSE HW_SPEED_MAX

hw_interpolate_speed(t) ==
    IF t <= HW_TEMP_OFF THEN HW_SPEED_OFF
    ELSE IF t <= HW_TEMP_SILENT THEN HW_SPEED_MIN
    ELSE IF t <= HW_TEMP_LOW
         THEN HW_SPEED_MIN + ((HW_SPEED_LOW - HW_SPEED_MIN) * (t - HW_TEMP_SILENT))
                                \div (HW_TEMP_LOW - HW_TEMP_SILENT)
    ELSE IF t <= HW_TEMP_MED
         THEN HW_SPEED_LOW + ((HW_SPEED_MED - HW_SPEED_LOW) * (t - HW_TEMP_LOW))
                                \div (HW_TEMP_MED - HW_TEMP_LOW)
    ELSE IF t <= HW_TEMP_HIGH
         THEN HW_SPEED_MED + ((HW_SPEED_HIGH - HW_SPEED_MED) * (t - HW_TEMP_MED))
                                \div (HW_TEMP_HIGH - HW_TEMP_MED)
    ELSE IF t <= HW_TEMP_MAX
         THEN HW_SPEED_HIGH + ((HW_SPEED_MAX - HW_SPEED_HIGH) * (t - HW_TEMP_HIGH))
                                \div (HW_TEMP_MAX - HW_TEMP_HIGH)
    ELSE HW_SPEED_MAX

\* mutant: the margin looked at is one degree short of HYSTERESIS
hw_calc_target_short_gap(t, previous_target) ==
    IF /\ hw_interpolate_speed(t) < previous_target
       /\ hw_interpolate_speed(t + HW_HYSTERESIS - 1) >= previous_target
    THEN previous_target
    ELSE hw_interpolate_speed(t)

hw_calc_target(t, previous_target) ==
    IF /\ hw_interpolate_speed(t) < previous_target
       /\ hw_interpolate_speed(t + HW_HYSTERESIS) >= previous_target
    THEN previous_target
    ELSE hw_interpolate_speed(t)

\* mutant: the HIGH..MAX segment divides by the range of the segment before it
lg_interpolate_speed_wrong_range(t) ==
    IF t <= LG_TEMP_SILENT THEN LG_SPEED_MIN
    ELSE IF t <= LG_TEMP_LOW
         THEN LG_SPEED_MIN + ((LG_SPEED_LOW - LG_SPEED_MIN) * (t - LG_TEMP_SILENT))
                                \div (LG_TEMP_LOW - LG_TEMP_SILENT)
    ELSE IF t <= LG_TEMP_MED
         THEN LG_SPEED_LOW + ((LG_SPEED_MED - LG_SPEED_LOW) * (t - LG_TEMP_LOW))
                                \div (LG_TEMP_MED - LG_TEMP_LOW)
    ELSE IF t <= LG_TEMP_HIGH
         THEN LG_SPEED_MED + ((LG_SPEED_HIGH - LG_SPEED_MED) * (t - LG_TEMP_MED))
                                \div (LG_TEMP_HIGH - LG_TEMP_MED)
    ELSE IF t <= LG_TEMP_MAX
         THEN LG_SPEED_HIGH + ((LG_SPEED_MAX - LG_SPEED_HIGH) * (t - LG_TEMP_HIGH))
                                \div (LG_TEMP_HIGH - LG_TEMP_MED)
    ELSE LG_SPEED_MAX

lg_interpolate_speed(t) ==
    IF t <= LG_TEMP_SILENT THEN LG_SPEED_MIN
    ELSE IF t <= LG_TEMP_LOW
         THEN LG_SPEED_MIN + ((LG_SPEED_LOW - LG_SPEED_MIN) * (t - LG_TEMP_SILENT))
                                \div (LG_TEMP_LOW - LG_TEMP_SILENT)
    ELSE IF t <= LG_TEMP_MED
         THEN LG_SPEED_LOW + ((LG_SPEED_MED - LG_SPEED_LOW) * (t - LG_TEMP_LOW))
                                \div (LG_TEMP_MED - LG_TEMP_LOW)
    ELSE IF t <= LG_TEMP_HIGH
         THEN LG_SPEED_MED + ((LG_SPEED_HIGH - LG_SPEED_MED) * (t - LG_TEMP_MED))
                                \div (LG_TEMP_HIGH - LG_TEMP_MED)
    ELSE IF t <= LG_TEMP_MAX
         THEN LG_SPEED_HIGH + ((LG_SPEED_MAX - LG_SPEED_HIGH) * (t - LG_TEMP_HIGH))
                                \div (LG_TEMP_MAX - LG_TEMP_HIGH)
    ELSE LG_SPEED_MAX

lg_calc_target(t, current) ==
    IF /\ lg_interpolate_speed(t) < current
       /\ lg_interpolate_speed(t + LG_HYSTERESIS) >= current
    THEN current
    ELSE lg_interpolate_speed(t)

\* what the driver and the transport do while a daemon runs
DFrame == UNCHANGED <<kvars, tvars, fvars>>

\* return from main
Exit(status) ==
    /\ exit_status' = status
    /\ dpc' = "exited"

\* hwmon main: select_temp_sources() < 0 -> return 1
hw_select_temp_sources ==
    /\ variant = "hwmon"
    /\ dpc = "main"
    /\ \E c \in BOOLEAN, g \in BOOLEAN :
         /\ cpu_src' = c
         /\ gpu_src' = g
         /\ IF c \/ g
            THEN dpc' = "hw_select_pwm_sink" /\ UNCHANGED exit_status
            ELSE Exit(1)
    /\ UNCHANGED <<variant, has_pwm2, sink, dtick, dghost, running, handlers, sysfs, mret,
                   restores, nticks, signals>>
    /\ DFrame

\* hwmon main: select_pwm_sink() < 0 -> return 1; build_pwm_paths sets has_pwm2
hw_select_pwm_sink ==
    /\ dpc = "hw_select_pwm_sink"
    /\ \E found \in BOOLEAN, p2 \in BOOLEAN :
         /\ sink' = found
         /\ IF found
            THEN has_pwm2' = p2 /\ dpc' = "hw_manual_pwm1" /\ UNCHANGED exit_status
            ELSE has_pwm2' = has_pwm2 /\ Exit(1)
    /\ UNCHANGED <<variant, cpu_src, gpu_src, dtick, dghost, running, handlers, sysfs, mret,
                   restores, nticks, signals>>
    /\ DFrame

\* set_manual_mode: ret = 0; ret |= sysfs_write_int(pwm1_enable, 1)
hw_manual_pwm1 ==
    /\ dpc = "hw_manual_pwm1"
    /\ \E o \in WriteOutcomes :
         /\ sysfs' = Stored("pwm1_enable", 1, o)
         /\ mret' = WriteRet(o)
         /\ took_manual' = (took_manual \/ o = "written")
    /\ dpc' = "hw_manual_pwm2"
    /\ UNCHANGED <<dcfg, dtick, manual_ctl, sig_after_manual, ticks_after_sig,
                   write_after_restore, running, handlers, exit_status, restores, nticks,
                   signals>>
    /\ DFrame

\* set_manual_mode: if (has_pwm2) ret |= sysfs_write_int(pwm2_enable, 1); return ret
hw_manual_pwm2 ==
    /\ dpc = "hw_manual_pwm2"
    /\ IF has_pwm2
       THEN \E o \in WriteOutcomes :
              /\ sysfs' = Stored("pwm2_enable", 1, o)
              /\ mret' = (IF mret = -1 \/ WriteRet(o) = -1 THEN -1 ELSE 0)
              /\ took_manual' = (took_manual \/ o = "written")
       ELSE UNCHANGED <<sysfs, mret, took_manual>>
    /\ dpc' = "hw_manual_check"
    /\ UNCHANGED <<dcfg, dtick, manual_ctl, sig_after_manual, ticks_after_sig,
                   write_after_restore, running, handlers, exit_status, restores, nticks,
                   signals>>
    /\ DFrame

\* mutant: the result of set_manual_mode is not looked at
hw_manual_check_ignored ==
    /\ dpc = "hw_manual_check"
    /\ dpc' = "hw_signal_int"
    /\ manual_ctl' = took_manual
    /\ UNCHANGED <<dcfg, dtick, took_manual, sig_after_manual, ticks_after_sig,
                   write_after_restore, running, handlers, sysfs, mret, exit_status, restores,
                   nticks, signals>>
    /\ DFrame

\* hwmon main: if (set_manual_mode() < 0) return 1
hw_manual_check ==
    /\ dpc = "hw_manual_check"
    /\ IF mret < 0
       THEN /\ Exit(1)
            /\ UNCHANGED manual_ctl
       ELSE /\ dpc' = "hw_signal_int"
            /\ manual_ctl' = took_manual
            /\ UNCHANGED exit_status
    /\ UNCHANGED <<dcfg, dtick, took_manual, sig_after_manual, ticks_after_sig,
                   write_after_restore, running, handlers, sysfs, mret, restores, nticks,
                   signals>>
    /\ DFrame

\* signal(sig, signal_handler), then on to the next position
InstallHandler(at, sig, next) ==
    /\ dpc = at
    /\ handlers' = handlers \cup {sig}
    /\ dpc' = next
    /\ UNCHANGED <<dcfg, dtick, dghost, running, sysfs, mret, exit_status, restores, nticks,
                   signals>>
    /\ DFrame

\* hwmon main: signal(SIGINT, signal_handler); signal(SIGTERM, signal_handler)
hw_signal_int == InstallHandler("hw_signal_int", "SIGINT", "hw_signal_term")
hw_signal_term == InstallHandler("hw_signal_term", "SIGTERM", "hw_loop")

\* while (running): the next iteration starts, or the loop is left
LoopCheck(at, body, after) ==
    /\ dpc = at
    /\ IF running = 1
       THEN /\ nticks < MaxTicks
            /\ nticks' = nticks + 1
            /\ ticks_after_sig' = ticks_after_sig + (IF sig_after_manual THEN 1 ELSE 0)
            /\ dpc' = body
       ELSE /\ dpc' = after
            /\ UNCHANGED <<nticks, ticks_after_sig>>
    /\ UNCHANGED <<dcfg, dtick, took_manual, manual_ctl, sig_after_manual,
                   write_after_restore, running, handlers, sysfs, mret, exit_status, restores,
                   signals>>
    /\ DFrame

hw_loop == LoopCheck("hw_loop", "hw_sense", "hw_restore_pwm1")

\* mutant: the CPU reading whenever there is one
RawTempCpuFirst(c, g) ==
    IF c < 0 /\ g < 0 THEN 0
    ELSE IF c < 0 THEN g
    ELSE c

\* the sample of a tick: 0 when both readings failed, the one that did not
\* fail, else the larger
RawTemp(c, g) ==
    IF c < 0 /\ g < 0 THEN 0
    ELSE IF c < 0 THEN g
    ELSE IF g < 0 THEN c
    ELSE IF c > g THEN c ELSE g

\* hwmon loop body up to target = calc_target(temp, target)
hw_sense ==
    /\ dpc = "hw_sense"
    /\ \E mc \in Readings(cpu_src), mg \in Readings(gpu_src) :
         /\ cpu_t' = get_temp(mc)
         /\ gpu_t' = get_temp(mg)
         /\ raw_temp' = RawTemp(get_temp(mc), get_temp(mg))
    /\ temp_smooth' = HistoryAdd(temp_smooth, raw_temp')
    /\ temp' = smooth_temp(temp_smooth, raw_temp')
    /\ target' = hw_calc_target(temp', target)
    /\ dpc' = "hw_write_pwm1"
    /\ UNCHANGED <<dcfg, dghost, unified_fan, ts_sec, running, handlers, sysfs, mret,
                   exit_status, restores, nticks, signals>>
    /\ DFrame

\* a fan target is written to a node
WriteTarget(at, node, cond, next) ==
    /\ dpc = at
    /\ IF cond
       THEN /\ \E o \in WriteOutcomes : sysfs' = Stored(node, target, o)
            /\ write_after_restore' = (write_after_restore \/ restores > 0)
       ELSE UNCHANGED <<sysfs, write_after_restore>>
    /\ dpc' = next
    /\ UNCHANGED <<dcfg, dtick, took_manual, manual_ctl, sig_after_manual, ticks_after_sig,
                   running, handlers, mret, exit_status, restores, nticks, signals>>
    /\ DFrame

\* sysfs_write_int(pwm1, target); if (has_pwm2) sysfs_write_int(pwm2, target)
hw_write_pwm1 == WriteTarget("hw_write_pwm1", "pwm1", TRUE, "hw_write_pwm2")
hw_write_pwm2 == WriteTarget("hw_write_pwm2", "pwm2", has_pwm2, "hw_sleep")

POLL_INTERVAL == 1

\* ts.tv_sec = POLL_INTERVAL; nanosleep(&ts, NULL): that long, or until a signal
\* arrives
Sleep(at, next) ==
    /\ dpc = at
    /\ ts_sec' = POLL_INTERVAL
    /\ dpc' = next
    /\ UNCHANGED <<dcfg, cpu_t, gpu_t, raw_temp, temp, temp_smooth, target, unified_fan,
                   dghost, running, handlers, sysfs, mret, exit_status, restores, nticks,
                   signals>>
    /\ DFrame

hw_sleep == Sleep("hw_sleep", "hw_loop")

\* restore_auto: sysfs_write_int(pwm1_enable, 2)
hw_restore_pwm1 ==
    /\ dpc = "hw_restore_pwm1"
    /\ restores' = restores + 1
    /\ \E o \in WriteOutcomes : sysfs' = Stored("pwm1_enable", 2, o)
    /\ dpc' = "hw_restore_pwm2"
    /\ UNCHANGED <<dcfg, dtick, dghost, running, handlers, mret, exit_status, nticks, signals>>
    /\ DFrame

\* restore_auto: if (has_pwm2) sysfs_write_int(pwm2_enable, 2); then return 0
hw_restore_pwm2 ==
    /\ dpc = "hw_restore_pwm2"
    /\ IF has_pwm2
       THEN \E o \in WriteOutcomes : sysfs' = Stored("pwm2_enable", 2, o)
       ELSE UNCHANGED sysfs
    /\ Exit(0)
    /\ UNCHANGED <<dcfg, dtick, dghost, running, handlers, mret, restores, nticks, signals>>
    /\ DFrame

\* legacy main: access(SYSFS_BASE, F_OK) != 0 -> return 1
lg_access ==
    /\ variant = "legacy"
    /\ dpc = "main"
    /\ \E loaded \in BOOLEAN :
         IF loaded THEN dpc' = "lg_find_hwmon" /\ UNCHANGED exit_status ELSE Exit(1)
    /\ UNCHANGED <<dcfg, dtick, dghost, running, handlers, sysfs, mret, restores, nticks,
                   signals>>
    /\ DFrame

\* legacy main: find_hwmon("k10temp", hwmon_cpu), find_hwmon("amdgpu", hwmon_gpu)
lg_find_hwmon ==
    /\ dpc = "lg_find_hwmon"
    /\ cpu_src' \in BOOLEAN
    /\ gpu_src' \in BOOLEAN
    /\ dpc' = "lg_signal_int"
    /\ UNCHANGED <<variant, has_pwm2, sink, dtick, dghost, running, handlers, sysfs, mret,
                   exit_status, restores, nticks, signals>>
    /\ DFrame

\* legacy main: signal(SIGINT, signal_handler); signal(SIGTERM, signal_handler)
lg_signal_int == InstallHandler("lg_signal_int", "SIGINT", "lg_signal_term")
lg_signal_term == InstallHandler("lg_signal_term", "SIGTERM", "lg_take_control")

\* legacy main: sysfs_write_int(SYSFS_FAN_AUTO, 0)
lg_take_control ==
    /\ dpc = "lg_take_control"
    /\ \E o \in WriteOutcomes :
         /\ sysfs' = Stored("fan_auto", 0, o)
         /\ took_manual' = (o = "written")
         /\ manual_ctl' = (o = "written")
    /\ dpc' = "lg_loop"
    /\ UNCHANGED <<dcfg, dtick, sig_after_manual, ticks_after_sig, write_after_restore,
                   running, handlers, mret, exit_status, restores, nticks, signals>>
    /\ DFrame

lg_loop == LoopCheck("lg_loop", "lg_sense", "lg_restore")

\* get_hwmon_temp: 0 without a sensor path or for a failed read, else degrees
get_hwmon_temp(found, m) == IF ~found \/ m < 0 THEN 0 ELSE m \div 1000

\* legacy get_temp: the CPU temperature from k10temp, else the EC, else the GPU
LgCpuTemp(cpu_hwmon, gpu_hwmon, ec_temp) ==
    IF cpu_hwmon > 0 THEN cpu_hwmon
    ELSE IF ec_temp > 0 THEN ec_temp
    ELSE gpu_hwmon

\* legacy get_temp: the GPU temperature from amdgpu, else the CPU temperature
LgGpuTemp(cpu_hwmon, gpu_hwmon, ec_temp) ==
    IF gpu_hwmon > 0 THEN gpu_hwmon ELSE LgCpuTemp(cpu_hwmon, gpu_hwmon, ec_temp)

\* what /temp1 of the driver may give: degrees, or -1 for a failed read
EcTemps == {-1, 45}

\* sysfs_read_int of a fan speed node, a failed read counted as 0
FanActual(node) == {sysfs[node], 0}

\* legacy loop body up to target = calc_target(max_temp, &unified_fan)
lg_sense ==
    /\ dpc = "lg_sense"
    /\ \E mc \in Readings(cpu_src), mg \in Readings(gpu_src), e \in EcTemps :
         /\ cpu_t' = LgCpuTemp(get_hwmon_temp(cpu_src, mc), get_hwmon_temp(gpu_src, mg),
                               IF e <= 0 THEN 0 ELSE e)
         /\ gpu_t' = LgGpuTemp(get_hwmon_temp(cpu_src, mc), get_hwmon_temp(gpu_src, mg),
                               IF e <= 0 THEN 0 ELSE e)
    /\ raw_temp' = (IF cpu_t' > gpu_t' THEN cpu_t' ELSE gpu_t')
    /\ temp' = raw_temp'
    /\ \E f1 \in FanActual("fan1_speed"), f2 \in FanActual("fan2_speed") :
         unified_fan' = (f1 + f2) \div 2
    /\ target' = lg_calc_target(temp', unified_fan')
    /\ dpc' = "lg_write_fan1"
    /\ UNCHANGED <<dcfg, dghost, temp_smooth, ts_sec, running, handlers, sysfs, mret,
                   exit_status, restores, nticks, signals>>
    /\ DFrame

\* sysfs_write_int(SYSFS_FAN1, target); sysfs_write_int(SYSFS_FAN2, target)
lg_write_fan1 == WriteTarget("lg_write_fan1", "fan1_speed", TRUE, "lg_write_fan2")
lg_write_fan2 == WriteTarget("lg_write_fan2", "fan2_speed", TRUE, "lg_sleep")

lg_sleep == Sleep("lg_sleep", "lg_loop")

\* restore_auto: sysfs_write_int(SYSFS_FAN_AUTO, 1); then return 0
lg_restore ==
    /\ dpc = "lg_restore"
    /\ restores' = restores + 1
    /\ \E o \in WriteOutcomes : sysfs' = Stored("fan_auto", 1, o)
    /\ Exit(0)
    /\ UNCHANGED <<dcfg, dtick, dghost, running, handlers, mret, nticks, signals>>
    /\ DFrame

\* SIGINT or SIGTERM reaches the process: signal_handler sets running = 0 if it
\* is installed for the signal, else the default action ends the process
deliver_signal ==
    /\ dpc \notin {"exited", "killed"}
    /\ signals < MaxSignals
    /\ signals' = signals + 1
    /\ \E sig \in Signals :
         IF sig \in handlers
         THEN running' = 0 /\ dpc' = dpc
         ELSE running' = running /\ dpc' = "killed"
    /\ sig_after_manual' = (sig_after_manual \/ manual_ctl)
    /\ UNCHANGED <<dcfg, dtick, took_manual, manual_ctl, ticks_after_sig, write_after_restore,
                   handlers, sysfs, mret, exit_status, restores, nticks>>
    /\ DFrame

DNext ==
    \/ hw_select_temp_sources
    \/ hw_select_pwm_sink
    \/ hw_manual_pwm1
    \/ hw_manual_pwm2
    \/ hw_manual_check
    \/ hw_signal_int
    \/ hw_signal_term
    \/ hw_loop
    \/ hw_sense
    \/ hw_write_pwm1
    \/ hw_write_pwm2
    \/ hw_sleep
    \/ hw_restore_pwm1
    \/ hw_restore_pwm2
    \/ lg_access
    \/ lg_find_hwmon
    \/ lg_signal_int
    \/ lg_signal_term
    \/ lg_take_control
    \/ lg_loop
    \/ lg_sense
    \/ lg_write_fan1
    \/ lg_write_fan2
    \/ lg_sleep
    \/ lg_restore
    \/ deliver_signal

\* either daemon started, over a driver that is loaded and left alone
DInit == KLoad(0) /\ ec = EcImage(1) /\ FLoad("hwmon", 0) /\ \E v \in Variants : DLoad(v)

SpecD == DInit /\ [][DNext]_vars

\* the process has ended: main returned, or a signal ended it
Ended == dpc \in {"exited", "killed"}

\* C1: whenever the hwmon daemon has returned from main after a write that
\* switched an enable node to manual took effect, restore_auto has been called
\* exactly once.
C1_RestoreOnEveryExit ==
    (variant = "hwmon" /\ dpc = "exited" /\ took_manual) => restores = 1

\* C2: in both daemons, once a signal has been delivered after the daemon took
\* manual control, no further loop iteration starts, a process that has ended
\* has called restore_auto, and no fan target is written after restore_auto.
C2_SignalStopsLoopAndRestores ==
    sig_after_manual =>
        /\ ticks_after_sig = 0
        /\ Ended => restores = 1
        /\ ~write_after_restore

\* a step of the daemon process itself, not the delivery of a signal
DaemonStep == dpc' # dpc /\ signals' = signals

\* C17: in a tick of the hwmon daemon after the first in which neither source
\* could be read, the temperature the target is computed from is that of the
\* tick before.
C17_HoldsLastSmoothedValue ==
    [][(/\ dpc = "hw_sense"
        /\ DaemonStep
        /\ nticks >= 2
        /\ cpu_t' < 0
        /\ gpu_t' < 0) => temp' = temp]_vars

\* the larger of two readings
Max(a, b) == IF a > b THEN a ELSE b

\* C18: in every tick of the hwmon daemon the sample is the larger reading when
\* both sources were read and the one reading there is when one read failed,
\* it is what goes into the history, and the tick with one failed read goes on
\* to its writes with running, the enable nodes and the exit status untouched.
C18_SampleIsMaxOrRemaining ==
    [][(dpc = "hw_sense" /\ DaemonStep) =>
          /\ (cpu_t' >= 0 /\ gpu_t' >= 0) => raw_temp' = Max(cpu_t', gpu_t')
          /\ (cpu_t' >= 0 /\ gpu_t' < 0) => raw_temp' = cpu_t'
          /\ (cpu_t' < 0 /\ gpu_t' >= 0) => raw_temp' = gpu_t'
          /\ (cpu_t' >= 0 \/ gpu_t' >= 0) =>
                /\ temp_smooth' = HistoryAdd(temp_smooth, raw_temp')
                /\ dpc' = "hw_write_pwm1"
                /\ running' = running
                /\ sysfs' = sysfs
                /\ exit_status' = NoExit]_vars

\* C18 witness: a tick read the GPU source alone, the CPU source having one and
\* failing, and went on to its writes.
C18_Witness ==
    /\ variant = "hwmon"
    /\ dpc = "hw_write_pwm1"
    /\ cpu_src
    /\ cpu_t < 0
    /\ gpu_t >= 0
    /\ raw_temp = gpu_t

\* C19: the hwmon daemon returns 1 when select_temp_sources finds no source,
\* when select_pwm_sink finds no device and when set_manual_mode fails; in the
\* first two cases no node has been written; and a process that returned 1 has
\* started no tick.
C19_StartupFailuresExitOne ==
    /\ [][(variant = "hwmon" /\ DaemonStep) =>
            /\ (dpc = "main" /\ ~cpu_src' /\ ~gpu_src') =>
                  (dpc' = "exited" /\ exit_status' = 1 /\ sysfs' = sysfs
                   /\ sysfs["pwm1_enable"] = 2 /\ sysfs["pwm2_enable"] = 2)
            /\ (dpc = "hw_select_pwm_sink" /\ ~sink') =>
                  (dpc' = "exited" /\ exit_status' = 1 /\ sysfs' = sysfs
                   /\ sysfs["pwm1_enable"] = 2 /\ sysfs["pwm2_enable"] = 2)
            /\ (dpc = "hw_manual_check" /\ mret < 0) =>
                  (dpc' = "exited" /\ exit_status' = 1)]_vars
    /\ []((variant = "hwmon" /\ exit_status = 1) => (dpc = "exited" /\ nticks = 0))
    /\ []((variant = "hwmon" /\ mret < 0) => nticks = 0)

\* C19 witness: set_manual_mode failed and main returned 1.
C19_Witness ==
    /\ variant = "hwmon"
    /\ dpc = "exited"
    /\ exit_status = 1
    /\ sink
    /\ mret < 0
    /\ nticks = 0

\* the lowest speed of daemon v's curve
LowestSpeed(v) == IF v = "hwmon" THEN HW_SPEED_OFF ELSE LG_SPEED_MIN

\* C20: after a tick with the temperature below 50 and the fan at its lowest
\* speed the daemon sleeps 5 seconds, after any other tick 1 second.
C20_AdaptiveSleep ==
    (dpc \in {"hw_loop", "lg_loop"} /\ nticks >= 1) =>
        ts_sec = (IF temp < 50 /\ target = LowestSpeed(variant) THEN 5 ELSE 1)

(***************************************************************************)
(* The fan curve on its own: calc_target called tick after tick, each call *)
(* given the target of the call before as its previous value.              *)
(***************************************************************************)
MinTemp == 45
MaxTemp == 100
MaxPrev == 260
MaxChain == 7

\* the temperatures passed: every degree around the curve, and far values
Temps == {0 - MaxTemp, 0} \cup (MinTemp..MaxTemp) \cup {2 * MaxTemp}

\* mutant: the curve read one degree late
interpolate_speed_late(v, t) ==
    IF v = "hwmon" THEN hw_interpolate_speed(t - 1) ELSE lg_interpolate_speed(t - 1)

\* interpolate_speed of daemon v
interpolate_speed(v, t) ==
    IF v = "hwmon" THEN hw_interpolate_speed(t) ELSE lg_interpolate_speed(t)

\* HYSTERESIS of daemon v
Hysteresis(v) == IF v = "hwmon" THEN HW_HYSTERESIS ELSE LG_HYSTERESIS

\* mutant: calc_target without the hysteresis branch
calc_target_no_hysteresis(v, t, p) == interpolate_speed(v, t)

\* mutant: the previous target is also held while the curve is less than one
\* hysteresis width above it
calc_target_holding_up(v, t, p) ==
    IF interpolate_speed(v, t) > p /\ interpolate_speed(v, t - Hysteresis(v)) <= p
    THEN p
    ELSE IF v = "hwmon" THEN hw_calc_target(t, p) ELSE lg_calc_target(t, p)

\* calc_target of daemon v
calc_target(v, t, p) == IF v = "hwmon" THEN hw_calc_target(t, p) ELSE lg_calc_target(t, p)

\* the previous values the first call may be given
PrevStep == 20
InitialPrev == {p \in 0..MaxPrev : p % PrevStep = 0}

\* the temperatures of the scenario
ScenarioTemps == <<50, 50, 64, 72, 80, 88, 95>>

FFrame ==
    UNCHANGED <<kvars, tvars, dvars, f_variant, f_hist, f_avg, f_passed, f_base, f_first>>

\* target = calc_target(temp, previous): the first call with the previous value
\* drawn at the start, a later one with the target of the call before
CalcTargetCall(temps) ==
    /\ f_calls < MaxChain
    /\ f_prev' = (IF f_calls = 0 THEN f_prev ELSE f_target)
    /\ \E t \in temps :
         /\ f_temp' = t
         /\ f_speed' = interpolate_speed(f_variant, t)
         /\ f_target' = calc_target(f_variant, t, f_prev')
         /\ on_script' = /\ on_script
                         /\ f_calls + 1 <= Len(ScenarioTemps)
                         /\ t = ScenarioTemps[f_calls + 1]
    /\ f_calls' = f_calls + 1
    /\ FFrame

\* the call with any temperature
calc_target_call == CalcTargetCall(Temps)

\* either curve, any previous value
FInit ==
    /\ KLoad(0)
    /\ ec = EcImage(1)
    /\ DLoad("hwmon")
    /\ \E v \in Variants, p \in InitialPrev : FLoad(v, p)

SpecF == FInit /\ [][calc_target_call]_vars

\* the documented breakpoints of each curve, temperature -> speed
Breakpoints(v) ==
    IF v = "hwmon"
    THEN {<<55, 0>>, <<61, 39>>, <<67, 96>>, <<73, 128>>, <<80, 192>>, <<90, 255>>}
    ELSE {<<62, 25>>, <<70, 50>>, <<78, 100>>, <<86, 150>>, <<92, 200>>}
LowestBreak(v) == IF v = "hwmon" THEN <<55, 0>> ELSE <<62, 25>>
HighestBreak(v) == IF v = "hwmon" THEN <<90, 255>> ELSE <<92, 200>>

\* C12: interpolate_speed of either curve gives the table's minimum below the
\* lowest breakpoint, its maximum above the highest, the table's speed at every
\* breakpoint, and never more than the maximum.
C12_CurveEndsAndBreakpoints ==
    f_calls >= 1 =>
        /\ f_temp < LowestBreak(f_variant)[1] => f_speed = LowestBreak(f_variant)[2]
        /\ f_temp > HighestBreak(f_variant)[1] => f_speed = HighestBreak(f_variant)[2]
        /\ \A b \in Breakpoints(f_variant) : f_temp = b[1] => f_speed = b[2]
        /\ f_speed <= HighestBreak(f_variant)[2]

\* C12 witness: the legacy curve was read at its breakpoint 78 and gave 100.
C12_Witness ==
    /\ f_calls >= 1
    /\ f_variant = "legacy"
    /\ f_temp = 78
    /\ f_speed = 100

\* C13: interpolate_speed is non-decreasing: a call at a temperature not below
\* that of the call before gives a speed not below that call's speed.
C13_CurveNonDecreasing ==
    [][(f_calls >= 1 /\ f_temp <= f_temp') => f_speed <= f_speed']_vars

\* C13 witness: the hwmon curve was read one degree past the breakpoint 67, in
\* the next segment, a second or later call.
C13_Witness ==
    /\ f_calls >= 2
    /\ f_variant = "hwmon"
    /\ f_temp = 68
    /\ f_speed = 101

\* C14: with V the value commanded by the call before and T2 a temperature
\* below that call's: calc_target(T2, V) is V when interpolate_speed(T2 + H)
\* >= V, and interpolate_speed(T2) otherwise.
C14_HysteresisStepDown ==
    [][(f_calls >= 1 /\ f_temp' < f_temp) =>
          IF interpolate_speed(f_variant, f_temp' + Hysteresis(f_variant)) >= f_target
          THEN f_target' = f_target
          ELSE f_target' = interpolate_speed(f_variant, f_temp')]_vars

\* C14 witness: a second or later call at a lower temperature kept the value
\* of the call before, above what the curve gives at that temperature.
C14_Witness ==
    /\ f_calls >= 2
    /\ f_target = f_prev
    /\ f_speed < f_target

\* the targets of the scenario as documented, and as linear interpolation with
\* integer truncation gives them
DocumentedTargets == <<25, 25, 36, 62, 112, 175, 200>>
InterpolatedTargets == <<25, 25, 31, 62, 112, 166, 200>>

\* C15 as documented: the legacy curve fed 50, 50, 64, 72, 80, 88, 95 gives the
\* targets 25, 25, 36, 62, 112, 175, 200, none below its predecessor.
C15_DocumentedScenario ==
    (f_variant = "legacy" /\ on_script /\ f_calls >= 1) =>
        /\ f_target = DocumentedTargets[f_calls]
        /\ f_calls >= 2 => f_target >= f_prev

\* C15: the legacy curve fed 50, 50, 64, 72, 80, 88, 95 gives the targets
\* 25, 25, 31, 62, 112, 166, 200, none below its predecessor.
C15_Scenario ==
    (f_variant = "legacy" /\ on_script /\ f_calls >= 1) =>
        /\ f_target = InterpolatedTargets[f_calls]
        /\ f_calls >= 2 => f_target >= f_prev

\* C15 witness: the whole scenario was fed to the legacy curve.
C15_Witness ==
    /\ f_variant = "legacy"
    /\ on_script
    /\ f_calls = Len(ScenarioTemps)
    /\ f_target = 200

\* C28: step-up is never suppressed: the target calc_target returns for
\* temperature t and previous value p is at least interpolate_speed(t), it is
\* either interpolate_speed(t) or p, and it is interpolate_speed(t) whenever
\* that is at least p.
C28_StepUpNeverSuppressed ==
    f_calls > 0 =>
        LET s == interpolate_speed(f_variant, f_temp)
        IN  /\ f_speed = s
            /\ f_target >= s
            /\ f_target \in {s, f_prev}
            /\ (s >= f_prev => f_target = s)

\* C28 witness: a call whose previous value was a held target below the curve
\* has stepped up to the curve.
C28_Witness ==
    /\ f_calls > 2
    /\ f_prev > interpolate_speed(f_variant, f_temp - Hysteresis(f_variant))
    /\ f_speed > f_prev
    /\ f_target = f_speed

(***************************************************************************)
(* The hysteresis inside one window: successive ticks whose temperatures   *)
(* all lie within HYSTERESIS degrees of each other.                        *)
(***************************************************************************)
\* the temperatures from the window's lowest one to HYSTERESIS above it
WindowTemps == f_base..(f_base + Hysteresis(f_variant))

\* the call with a temperature of the window
window_call == CalcTargetCall(WindowTemps)

\* either curve, any previous value, a window anywhere along the curve
WInit ==
    /\ KLoad(0)
    /\ ec = EcImage(1)
    /\ DLoad("hwmon")
    /\ \E v \in Variants, p \in InitialPrev, b \in MinTemp..MaxTemp : FLoadWindow(v, p, b, p)

SpecW == WInit /\ [][window_call]_vars

\* C29 (as claimed): over ticks whose temperatures all lie within an interval
\* of width HYSTERESIS, each tick's previous value being the target of the tick
\* before, the targets never decrease.
C29_NoStepDownInWindow == f_calls >= 2 => f_target >= f_prev

\* C29 (amended): the same, for a window entered with a previous value that is
\* not above the curve at HYSTERESIS over the window's lowest temperature; then
\* the first target is not below that previous value either.
C29_NoStepDownFromInside ==
    (/\ f_calls >= 1
     /\ f_first <= interpolate_speed(f_variant, f_base + Hysteresis(f_variant)))
    => f_target >= f_prev

\* C29 witness: inside a window a target that came from the curve was held
\* while the curve went below it, and a later tick stepped up from it.
C29_Witness ==
    /\ f_calls >= 3
    /\ f_first <= interpolate_speed(f_variant, f_base + Hysteresis(f_variant))
    /\ f_prev > f_first
    /\ f_target > f_prev
    /\ f_temp < f_base + Hysteresis(f_variant)

(***************************************************************************)
(* The moving average on its own: smooth_temp called sample after sample   *)
(* on a history that starts empty.                                         *)
(***************************************************************************)
MaxSamples == 10

\* the samples passed
Samples == {40, 65, 95}

\* temp = smooth_temp(&temp_smooth, raw_temp)
smooth_temp_call ==
    /\ f_calls < MaxSamples
    /\ \E t \in Samples :
         /\ f_hist' = HistoryAdd(f_hist, t)
         /\ f_avg' = smooth_temp(f_hist, t)
         /\ f_passed' = Append(f_passed, t)
    /\ f_calls' = f_calls + 1
    /\ UNCHANGED <<kvars, tvars, dvars, f_variant, f_temp, f_prev, f_speed, f_target,
                   on_script, f_base, f_first>>

\* an empty history
MInit == TInit

SpecM == MInit /\ [][smooth_temp_call]_vars

\* the number of samples the average is taken over after k calls
Window(k) == IF k < 8 THEN k ELSE 8

RECURSIVE SumLast(_, _)
\* the sum of the last n elements of a sequence
SumLast(seq, n) == IF n = 0 THEN 0 ELSE seq[Len(seq)] + SumLast(SubSeq(seq, 1, Len(seq) - 1), n - 1)

\* C16: after the k-th call of smooth_temp on a history that started empty the
\* result is the truncated mean of the last min(k, 8) samples passed, and the
\* history holds exactly those samples, each insert into a full history
\* having replaced the oldest one.
C16_MeanOfLastSamples ==
    f_calls >= 1 =>
        /\ Len(f_passed) = f_calls
        /\ f_avg = SumLast(f_passed, Window(f_calls)) \div Window(f_calls)
        /\ f_hist.count = Window(f_calls)
        /\ \A n \in 1..f_calls :
             IF n > f_calls - Window(f_calls)
             THEN f_hist.samples[(n - 1) % 8] = f_passed[n]
             ELSE f_hist.samples[(n - 1) % 8] = f_passed[n + 8 * ((f_calls - n) \div 8)]

\* C16 witness: a ninth sample went into the full history and replaced a first
\* sample of another value, and the mean is not that of all nine.
C16_Witness ==
    /\ f_calls = 9
    /\ f_hist.count = 8
    /\ f_passed[1] # f_passed[9]
    /\ f_hist.samples[0] = f_passed[9]
    /\ f_avg # SumLast(f_passed, 9) \div 9

\* C30: the history is a ring of 8 slots: the slot the next call writes,
\* samples[index], and the slots a call sums, samples[0..count-1], are slots of
\* samples[0..7]; after n >= 1 calls count is min(n, 8), so the divisor is at
\* least 1, and index is n mod 8.
C30_RingBounds ==
    /\ DOMAIN f_hist.samples = 0..(TEMP_HISTORY_SIZE - 1)
    /\ f_hist.index \in DOMAIN f_hist.samples
    /\ f_hist.count \in 0..TEMP_HISTORY_SIZE
    /\ \A k \in 0..(f_hist.count - 1) : k \in DOMAIN f_hist.samples
    /\ f_calls >= 1 =>
         /\ f_hist.count >= 1
         /\ f_hist.count = (IF f_calls < TEMP_HISTORY_SIZE THEN f_calls ELSE TEMP_HISTORY_SIZE)
         /\ f_hist.index = f_calls % TEMP_HISTORY_SIZE

\* C30 witness: the index has wrapped: after the ninth call it is 1 and the
\* count has stayed at 8.
C30_Witness ==
    /\ f_calls = TEMP_HISTORY_SIZE + 1
    /\ Len(f_passed) = f_calls
    /\ f_hist.index = 1
    /\ f_hist.count = TEMP_HISTORY_SIZE

(***************************************************************************)
(* Properties of the driver.                                               *)
(***************************************************************************)
\* the EC is in automatic mode: manual override off, custom-profile bit and both
\* table-enable bits clear
HardwareAuto ==
    /\ ec[UW_EC_REG_MANUAL_MODE] = 0
    /\ ~HasBit(ec[UW_EC_REG_CUSTOM_PROFILE], UW_EC_CUSTOM_PROFILE_BIT)
    /\ ~HasBit(ec[UW_EC_REG_USE_CUSTOM_FAN_TABLE_0], TABLE_0_BIT)
    /\ ~HasBit(ec[UW_EC_REG_USE_CUSTOM_FAN_TABLE_1], TABLE_1_BIT)

\* the positions inside fan_set_auto
FsaLabels == {"fsa_rd_tbl1", "fsa_wr_tbl1", "fsa_rd_tbl0", "fsa_wr_tbl0", "fsa_rd_mode",
              "fsa_wr_mode", "fsa_wr_manual", "fsa_rd_profile", "fsa_wr_profile",
              "fsa_done"}

\* thread t is in fan_set_speed's own writes or has just returned from them, so
\* that wire is a speed write of its current call
InSpeedWrites(t) ==
    /\ caller[t] = "fan_speed_store"
    /\ wire.by = t
    /\ \/ kpc[t] = "fss_direct"
       \/ kpc[t] = "idle" /\ ret[t] = "count"

\* C3: once uniwill_fan_exit has completed, fan_set_auto has run (its four
\* reads and the manual-override write were issued) and fans_initialized is
\* false; when none of its transactions failed, the manual-override register
\* holds 0 and the custom-profile, table-0 and table-1 bits are clear.
C3_UnloadRestoresAuto ==
    \A t \in Threads :
        (unloaded /\ caller[t] = "uniwill_fan_exit") =>
            /\ nops[t] >= 5
            /\ ~fans_initialized
            /\ (~callfail[t] => HardwareAuto)

\* C3 witness: an unload without failures that found the EC in custom mode
\* (its last transaction cleared the custom-profile bit).
C3_Witness ==
    /\ unloaded
    /\ caller[1] = "uniwill_fan_exit"
    /\ ~callfail[1]
    /\ ncalls = 2
    /\ wire.rw = "write"
    /\ wire.addr = UW_EC_REG_CUSTOM_PROFILE

\* C4 (as claimed): during a call fan_set_speed(fan, 0), no write of the byte 0
\* goes to that fan's zone-0 table speed register or direct-speed register, the
\* implicit handshake included.
C4_NoLiteralZero ==
    \A t \in Threads :
        (/\ caller[t] = "fan_speed_store"
         /\ kpc[t] # "idle"
         /\ nops[t] > 0
         /\ ToU8(store_speed[t]) = 0
         /\ wire.by = t
         /\ wire.rw = "write"
         /\ wire.addr \in {TableAddr(fan_idx[t]), DirectAddr(fan_idx[t])})
        => wire.value # 0

\* the documented remap: 0 -> 1, 1..24 -> 25, 25..200 -> itself, above -> 200
ClaimedRemap(v) ==
    IF v = 0 THEN 1
    ELSE IF v <= 24 THEN 25
    ELSE IF v <= 200 THEN v
    ELSE 200

\* C5: every value fan_set_speed writes for the 8-bit input v, first to the
\* zone-0 table speed register and then to the direct-speed register, is 1 if
\* v = 0, 25 if 1 <= v <= 24, v if 25 <= v <= 200 and 200 if v > 200, hence in
\* {1} \cup 25..200.
C5_RemappedValue ==
    \A t \in Threads :
        InSpeedWrites(t) =>
            /\ wire.rw = "write"
            /\ wire.value = ClaimedRemap(ToU8(store_speed[t]))
            /\ wire.value \in {1} \cup (25..200)
            /\ wire.addr = IF kpc[t] = "fss_direct" /\ i[t] = 0
                           THEN TableAddr(fan_idx[t]) ELSE DirectAddr(fan_idx[t])

\* C5 witness: a store of a value between 1 and 24 has returned after its
\* direct-speed writes of 25.
C5_Witness ==
    /\ InSpeedWrites(1)
    /\ kpc[1] = "idle"
    /\ ToU8(store_speed[1]) \in 1..24
    /\ wire.value = 25
    /\ ec[DirectAddr(fan_idx[1])] = 25

\* C6 (as claimed): an int outside 0..200 written to fanN_speed is rejected with
\* -EINVAL or clamped to the nearer bound before it is written: above 200 the
\* value written is 200, below 0 it is that of 0.
C6_ClampedOrRejected ==
    \A t \in Threads :
        (InSpeedWrites(t) /\ store_speed[t] \notin 0..200) =>
            wire.value = IF store_speed[t] > 200 THEN 200 ELSE ClaimedRemap(0)

\* C7: a call of init_custom_fan_table that finds fans_initialized true returns
\* at once: the step changes no EC register and issues no transaction.
C7_SecondInitIsNoOp ==
    [][\A t \in Threads :
          (kpc[t] = "ict_entry" /\ fans_initialized /\ kpc'[t] # kpc[t]) =>
              /\ kpc'[t] = "ict_return"
              /\ ec' = ec
              /\ wire' = wire
              /\ nops'[t] = nops[t]]_vars

\* C7 witness: a thread is at the guard's return 0, having issued nothing, after
\* another caller's init_custom_fan_table completed.
C7_Witness ==
    \E t \in Threads : kpc[t] = "ict_return" /\ nops[t] = 0 /\ fans_initialized

\* C8 (as claimed): while fan_set_auto runs with the EC already in automatic
\* mode and none of its transactions failing, no EC register changes value and
\* fans_initialized is false afterwards.
C8_AutoFromAutoIsNoOp ==
    [][\A t \in Threads :
          (HardwareAuto /\ kpc[t] \in FsaLabels /\ ~callfail'[t]) =>
              (ec' = ec /\ ~fans_initialized')]_vars

(***************************************************************************)
(* The handshake: completeness, failures, order.                           *)
(***************************************************************************)
\* the mode registers of the custom-table configuration: custom-profile bit
\* set, manual override 1, full-automatic bit clear, both table-enable bits set
ModeManualTable ==
    /\ HasBit(ec[UW_EC_REG_CUSTOM_PROFILE], UW_EC_CUSTOM_PROFILE_BIT)
    /\ ec[UW_EC_REG_MANUAL_MODE] = 1
    /\ ~HasBit(ec[UW_EC_REG_FAN_MODE], UW_EC_FAN_MODE_BIT)
    /\ HasBit(ec[UW_EC_REG_USE_CUSTOM_FAN_TABLE_0], TABLE_0_BIT)
    /\ HasBit(ec[UW_EC_REG_USE_CUSTOM_FAN_TABLE_1], TABLE_1_BIT)

\* the two fan tables as init_custom_fan_table programs them; the zone-0 speed
\* is the one fan_set_speed keeps rewriting
TablesProgrammed ==
    /\ ec[UW_EC_REG_CPU_FAN_TABLE_END_TEMP] = CPU_ZONE0_END
    /\ ec[UW_EC_REG_GPU_FAN_TABLE_END_TEMP] = GPU_ZONE0_END
    /\ ec[UW_EC_REG_CPU_FAN_TABLE_START_TEMP] = 0
    /\ ec[UW_EC_REG_GPU_FAN_TABLE_START_TEMP] = 0
    /\ \A a \in DummyRegs : ec[a] = DummyValue(a)

HardwareManualTable == ModeManualTable /\ TablesProgrammed

\* C21 (as claimed): when a transaction failed during an earlier call (so that
\* a handshake may be partially applied), a later fan_set_speed call none of
\* whose transactions fails leaves the EC in the complete custom-table
\* configuration.
C21_ReentrySelfCorrects ==
    \A t \in Threads :
        (/\ caller[t] = "fan_speed_store"
         /\ kpc[t] = "idle"
         /\ ret[t] = "count"
         /\ nfail > 0
         /\ ~callfail[t])
        => HardwareManualTable

\* the register operations of init_custom_fan_table and of fan_set_auto in
\* program order, ending with the assignment to fans_initialized
InitOrder ==
    <<"ict_rd_profile", "ict_wr_profile_clr", "ict_wr_profile_set", "ict_wr_manual",
      "ict_rd_mode", "ict_wr_mode", "ict_rd_tbl0", "ict_wr_tbl0", "ict_cpu_end",
      "ict_cpu_start", "ict_cpu_speed", "ict_gpu_end", "ict_gpu_start", "ict_gpu_speed",
      "ict_fill", "ict_rd_tbl1", "ict_wr_tbl1", "ict_done">>
AutoOrder ==
    <<"fsa_rd_tbl1", "fsa_wr_tbl1", "fsa_rd_tbl0", "fsa_wr_tbl0", "fsa_rd_mode",
      "fsa_wr_mode", "fsa_wr_manual", "fsa_rd_profile", "fsa_wr_profile", "fsa_done">>
\* the writes that stand under an if on the value just read
GuardedWrites == {"ict_wr_mode", "ict_wr_tbl0", "ict_wr_tbl1", "fsa_wr_tbl1",
                  "fsa_wr_tbl0", "fsa_wr_mode", "fsa_wr_profile"}

Pos(seq, label) == CHOOSE k \in 1..Len(seq) : seq[k] = label
Labels(seq) == {seq[k] : k \in 1..Len(seq)}
\* what follows label in seq: the next operation, and the one after it when the
\* next is a guarded write
NormalNext(seq, label) ==
    LET k == Pos(seq, label)
    IN  {seq[k + 1]} \cup (IF seq[k + 1] \in GuardedWrites THEN {seq[k + 2]} ELSE {})

\* the registers the operation at label reads or writes
StepRegs(label) ==
    IF label \in {"ict_rd_profile", "ict_wr_profile_clr", "ict_wr_profile_set",
                  "fsa_rd_profile", "fsa_wr_profile"}
    THEN {UW_EC_REG_CUSTOM_PROFILE}
    ELSE IF label \in {"ict_wr_manual", "fsa_wr_manual"} THEN {UW_EC_REG_MANUAL_MODE}
    ELSE IF label \in {"ict_rd_mode", "ict_wr_mode", "fsa_rd_mode", "fsa_wr_mode"}
    THEN {UW_EC_REG_FAN_MODE}
    ELSE IF label \in {"ict_rd_tbl0", "ict_wr_tbl0", "fsa_rd_tbl0", "fsa_wr_tbl0"}
    THEN {UW_EC_REG_USE_CUSTOM_FAN_TABLE_0}
    ELSE IF label \in {"ict_rd_tbl1", "ict_wr_tbl1", "fsa_rd_tbl1", "fsa_wr_tbl1"}
    THEN {UW_EC_REG_USE_CUSTOM_FAN_TABLE_1}
    ELSE IF label = "ict_cpu_end" THEN {UW_EC_REG_CPU_FAN_TABLE_END_TEMP}
    ELSE IF label = "ict_cpu_start" THEN {UW_EC_REG_CPU_FAN_TABLE_START_TEMP}
    ELSE IF label = "ict_cpu_speed" THEN {UW_EC_REG_CPU_FAN_TABLE_FAN_SPEED}
    ELSE IF label = "ict_gpu_end" THEN {UW_EC_REG_GPU_FAN_TABLE_END_TEMP}
    ELSE IF label = "ict_gpu_start" THEN {UW_EC_REG_GPU_FAN_TABLE_START_TEMP}
    ELSE IF label = "ict_gpu_speed" THEN {UW_EC_REG_GPU_FAN_TABLE_FAN_SPEED}
    ELSE IF label = "ict_fill" THEN DummyRegs
    ELSE {}

\* C22: in init_custom_fan_table and fan_set_auto, once a transaction of the
\* call has failed (the one of this step included) the sequence still goes on
\* to its next operation in program order, never to its end or back, and a
\* step changes no register but the one it operates on: nothing written
\* earlier is reverted.
C22_NoAbortNoRollback ==
    [][\A t \in Threads : \A seq \in {InitOrder, AutoOrder} :
          (/\ kpc[t] \in Labels(seq) \ {seq[Len(seq)]}
           /\ kpc'[t] # kpc[t]
           /\ callfail'[t])
          => /\ kpc'[t] \in NormalNext(seq, kpc[t])
             /\ \A a \in EcAddrs : ec'[a] # ec[a] => a \in StepRegs(kpc[t])]_vars

\* C22 witness: an init_custom_fan_table run whose manual-override write failed
\* has gone on through the tables to the table-1 enable write, which took
\* effect.
C22_Witness ==
    /\ kpc[1] = "ict_done"
    /\ callfail[1]
    /\ ec[UW_EC_REG_MANUAL_MODE] # 1
    /\ TablesProgrammed
    /\ wire = [by |-> 1, rw |-> "write", addr |-> UW_EC_REG_USE_CUSTOM_FAN_TABLE_1,
               value |-> ec[UW_EC_REG_USE_CUSTOM_FAN_TABLE_1], ok |-> TRUE]
    /\ HasBit(ec[UW_EC_REG_USE_CUSTOM_FAN_TABLE_1], TABLE_1_BIT)

\* the place of a transaction w in the entry sequence, by what is on the wire:
\* 1 custom-profile read, 2 its bit cleared, 3 its bit set, 4 manual override
\* set to 1, 5 fan-mode read, 6 full-automatic bit cleared, 7 table-0 read,
\* 8 table-0 bit set, 9..14 zone 0 of the CPU and the GPU table, 15 the dummy
\* zones, 16 table-1 read, 17 table-1 bit set; 0 for anything else
InitRank(w) ==
    IF w.rw = "read"
    THEN IF w.addr = UW_EC_REG_CUSTOM_PROFILE THEN 1
         ELSE IF w.addr = UW_EC_REG_FAN_MODE THEN 5
         ELSE IF w.addr = UW_EC_REG_USE_CUSTOM_FAN_TABLE_0 THEN 7
         ELSE IF w.addr = UW_EC_REG_USE_CUSTOM_FAN_TABLE_1 THEN 16
         ELSE 0
    ELSE IF w.rw # "write" THEN 0
    ELSE IF w.addr = UW_EC_REG_CUSTOM_PROFILE
    THEN (IF HasBit(w.value, UW_EC_CUSTOM_PROFILE_BIT) THEN 3 ELSE 2)
    ELSE IF w.addr = UW_EC_REG_MANUAL_MODE /\ w.value = 1 THEN 4
    ELSE IF w.addr = UW_EC_REG_FAN_MODE /\ ~HasBit(w.value, UW_EC_FAN_MODE_BIT) THEN 6
    ELSE IF w.addr = UW_EC_REG_USE_CUSTOM_FAN_TABLE_0 /\ HasBit(w.value, TABLE_0_BIT) THEN 8
    ELSE IF w.addr = UW_EC_REG_CPU_FAN_TABLE_END_TEMP THEN 9
    ELSE IF w.addr = UW_EC_REG_CPU_FAN_TABLE_START_TEMP THEN 10
    ELSE IF w.addr = UW_EC_REG_CPU_FAN_TABLE_FAN_SPEED THEN 11
    ELSE IF w.addr = UW_EC_REG_GPU_FAN_TABLE_END_TEMP THEN 12
    ELSE IF w.addr = UW_EC_REG_GPU_FAN_TABLE_START_TEMP THEN 13
    ELSE IF w.addr = UW_EC_REG_GPU_FAN_TABLE_FAN_SPEED THEN 14
    ELSE IF w.addr \in DummyRegs THEN 15
    ELSE IF w.addr = UW_EC_REG_USE_CUSTOM_FAN_TABLE_1 /\ HasBit(w.value, TABLE_1_BIT) THEN 17
    ELSE 0

\* the writes of the entry sequence that are issued only if the bit needs changing
InitGuardedRanks == {6, 8, 17}
\* the places that may follow place r
RankAfter(r) == {r + 1} \cup (IF r + 1 \in InitGuardedRanks THEN {r + 2} ELSE {})
\* the place of the last transaction of t's current call, 0 before the first
LastRank(t) == IF nops[t] = 0 THEN 0 ELSE InitRank(wire)

\* C23: the transactions of init_custom_fan_table go out in this order:
\* custom-profile bit cleared, then set; manual override set to 1; full-automatic
\* bit cleared (if set); table-0 enable bit set (if clear); zone 0 of the CPU and
\* of the GPU table; the dummy zones 1..15; table-1 enable bit set (if clear)
\* last. Nothing is left out or repeated, and fans_initialized turns true only
\* in the step after the table-1 enable step.
C23_EntryOrder ==
    [][\A t \in Threads :
          (kpc[t] \in Labels(InitOrder) /\ kpc'[t] # kpc[t]) =>
              IF kpc[t] = "ict_done"
              THEN ~fans_initialized /\ fans_initialized' /\ LastRank(t) \in {16, 17}
              ELSE /\ InitRank(wire') \in RankAfter(LastRank(t))
                   /\ fans_initialized' = fans_initialized]_vars

\* C23 witness: a handshake that needed all three guarded writes has completed:
\* 106 transactions, the last of them the table-1 enable write.
C23_Witness ==
    /\ kpc[1] = "fss_table"
    /\ fans_initialized
    /\ nops[1] = 4 + 6 + 6 + Cardinality(DummyRegs)
    /\ InitRank(wire) = 17
    /\ HardwareManualTable

\* the place of a transaction w in the exit sequence, by what is on the wire:
\* 1 table-1 read, 2 table-1 bit cleared, 3 table-0 read, 4 table-0 bit cleared,
\* 5 fan-mode read, 6 full-automatic bit cleared, 7 manual override set to 0,
\* 8 custom-profile read, 9 custom-profile bit cleared; 0 for anything else
AutoRank(w) ==
    IF w.rw = "read"
    THEN IF w.addr = UW_EC_REG_USE_CUSTOM_FAN_TABLE_1 THEN 1
         ELSE IF w.addr = UW_EC_REG_USE_CUSTOM_FAN_TABLE_0 THEN 3
         ELSE IF w.addr = UW_EC_REG_FAN_MODE THEN 5
         ELSE IF w.addr = UW_EC_REG_CUSTOM_PROFILE THEN 8
         ELSE 0
    ELSE IF w.rw # "write" THEN 0
    ELSE IF w.addr = UW_EC_REG_USE_CUSTOM_FAN_TABLE_1 /\ ~HasBit(w.value, TABLE_1_BIT) THEN 2
    ELSE IF w.addr = UW_EC_REG_USE_CUSTOM_FAN_TABLE_0 /\ ~HasBit(w.value, TABLE_0_BIT) THEN 4
    ELSE IF w.addr = UW_EC_REG_FAN_MODE /\ ~HasBit(w.value, UW_EC_FAN_MODE_BIT) THEN 6
    ELSE IF w.addr = UW_EC_REG_MANUAL_MODE /\ w.value = 0 THEN 7
    ELSE IF w.addr = UW_EC_REG_CUSTOM_PROFILE
            /\ ~HasBit(w.value, UW_EC_CUSTOM_PROFILE_BIT) THEN 9
    ELSE 0

\* the writes of the exit sequence that are issued only if the bit is set
AutoGuardedRanks == {2, 4, 6, 9}
AutoRankAfter(r) == {r + 1} \cup (IF r + 1 \in AutoGuardedRanks THEN {r + 2} ELSE {})

\* C24: the transactions of fan_set_auto go out in the reverse of the entry
\* order: table-1 enable bit cleared, table-0 enable bit cleared, full-automatic
\* bit cleared, manual override set to 0, custom-profile bit cleared last (the
\* bit writes only if the bit is found set); nothing is left out or repeated,
\* and fans_initialized turns false only in the step after the custom-profile
\* step.
C24_ExitOrder ==
    [][\A t \in Threads :
          (kpc[t] \in Labels(AutoOrder) /\ kpc'[t] # kpc[t]) =>
              LET last == IF nops[t] = 0 THEN 0 ELSE AutoRank(wire)
              IN  IF kpc[t] = "fsa_done"
                  THEN ~fans_initialized' /\ last \in {8, 9}
                  ELSE /\ AutoRank(wire') \in AutoRankAfter(last)
                       /\ fans_initialized' = fans_initialized]_vars

\* C24 witness: echo 1 > fan_auto after a handshake has returned, having cleared
\* the two table bits, the manual override and the custom-profile bit.
C24_Witness ==
    /\ kpc[1] = "idle"
    /\ caller[1] = "fan_auto_store"
    /\ ret[1] = "count"
    /\ ncalls = 2
    /\ ~callfail[1]
    /\ nops[1] = 8
    /\ AutoRank(wire) = 9
    /\ ~fans_initialized
    /\ HardwareAuto

\* the two fan tables: the base addresses of their end-temperature,
\* start-temperature and speed columns
FanTables ==
    {[end |-> UW_EC_REG_CPU_FAN_TABLE_END_TEMP, start |-> UW_EC_REG_CPU_FAN_TABLE_START_TEMP,
      speed |-> UW_EC_REG_CPU_FAN_TABLE_FAN_SPEED],
     [end |-> UW_EC_REG_GPU_FAN_TABLE_END_TEMP, start |-> UW_EC_REG_GPU_FAN_TABLE_START_TEMP,
      speed |-> UW_EC_REG_GPU_FAN_TABLE_FAN_SPEED]}

\* thread t is back in fan_set_speed from an init_custom_fan_table none of
\* whose transactions failed
InitSucceeded(t) ==
    /\ kpc[t] = "fss_table"
    /\ nops[t] > 0
    /\ ~callfail[t]

\* C25 (as claimed): after a fully successful init_custom_fan_table, in each of
\* the two fan tables zone 0 has start 0 and speed 0, and every zone 1..15 has
\* speed 200 and a start temperature strictly greater than zone 0's end
\* temperature.
C25_DummiesAboveActiveZone ==
    \A t \in Threads :
        InitSucceeded(t) =>
            \A tb \in FanTables :
                /\ ec[tb.start] = 0
                /\ ec[tb.speed] = 0
                /\ \A z \in 1..LAST_ZONE :
                     /\ ec[tb.speed + z] = FAN_SPEED_MAX
                     /\ ec[tb.start + z] > ec[tb.end]

\* the transactions of a handshake without its three guarded writes
MinInitOps == 4 + 3 + 6 + Cardinality(DummyRegs)

\* at every point of a fan_set_speed call from its first speed write to its
\* return the driver is in ManualTable, and at the first speed write the call
\* has either issued nothing (the flag was true on entry) or a whole handshake
SpeedWritesInManualTable ==
    \A t \in Threads :
        caller[t] = "fan_speed_store" =>
            /\ kpc[t] \in {"fss_table", "fss_direct"} => fans_initialized
            /\ (kpc[t] = "idle" /\ ret[t] = "count") => fans_initialized
            /\ kpc[t] = "fss_table" =>
                 \/ nops[t] = 0
                 \/ nops[t] >= MinInitOps /\ LastRank(t) \in {16, 17}

\* a call that finds fans_initialized false goes into init_custom_fan_table and
\* through its guard; one that finds it true goes straight to the speed writes
HandshakeFirst ==
    \A t \in Threads :
        /\ (kpc[t] = "fss_check" /\ kpc'[t] # kpc[t]) =>
              kpc'[t] = IF fans_initialized THEN "fss_table" ELSE "ict_entry"
        /\ (kpc[t] = "ict_entry" /\ ~fans_initialized /\ kpc'[t] # kpc[t]) =>
              kpc'[t] = "ict_rd_profile"

\* C26: with one caller at a time, fan_set_speed writes a speed register only
\* while fans_initialized is true: a call that finds the flag false runs the
\* whole entry handshake before its first speed write, and when a fan_set_speed
\* call returns the flag is true.
C26_HandshakeBeforeSpeed == []SpeedWritesInManualTable /\ [][HandshakeFirst]_vars

\* C26 witness: a store that found the flag false has returned after a whole
\* handshake and its six speed writes, the flag being true.
C26_Witness ==
    /\ kpc[1] = "idle"
    /\ ret[1] = "count"
    /\ caller[1] = "fan_speed_store"
    /\ nops[1] >= MinInitOps + 1 + DIRECT_WRITES
    /\ wire.addr = DirectAddr(fan_idx[1])
    /\ fans_initialized

\* C27: a fan_set_speed call issues one write to the selected fan's zone-0
\* table speed register, carrying the remapped value and starting the count of
\* direct writes at 0, then writes to that fan's direct-speed register, each
\* carrying the value of the write before it and adding one to the count; the
\* call returns exactly when the count reaches 5. None of this depends on
\* whether a write fails.
C27_OneTableFiveDirect ==
    [][\A t \in Threads :
          /\ (kpc[t] = "fss_table" /\ nops'[t] # nops[t]) =>
                /\ kpc'[t] = "fss_direct"
                /\ nops'[t] = nops[t] + 1
                /\ i'[t] = 0
                /\ wire'.by = t /\ wire'.rw = "write"
                /\ wire'.addr = TableAddr(fan_idx[t])
                /\ wire'.value = RemapSpeed(ToU8(store_speed[t]))
          /\ (kpc[t] = "fss_direct" /\ nops'[t] # nops[t]) =>
                /\ nops'[t] = nops[t] + 1
                /\ i'[t] = i[t] + 1
                /\ wire'.by = t /\ wire'.rw = "write"
                /\ wire'.addr = DirectAddr(fan_idx[t])
                /\ wire'.value = wire.value
                /\ kpc'[t] = IF i'[t] = DIRECT_WRITES THEN "idle" ELSE "fss_direct"
                /\ ret'[t] = IF i'[t] = DIRECT_WRITES THEN "count" ELSE ret[t]]_vars

\* C27 witness: a store that found the flag true has returned after six writes
\* although its table write had failed: five direct writes followed it.
C27_Witness ==
    /\ kpc[1] = "idle"
    /\ ret[1] = "count"
    /\ caller[1] = "fan_speed_store"
    /\ callfail[1]
    /\ nops[1] = 1 + DIRECT_WRITES
    /\ i[1] = DIRECT_WRITES
    /\ ec[TableAddr(fan_idx[1])] # wire.value
    /\ ec[DirectAddr(fan_idx[1])] = wire.value

(***************************************************************************)
(* The driver under concurrent callers.                                    *)
(***************************************************************************)
\* the four mode settings of the custom-table configuration
ManualTableBits ==
    /\ ec[UW_EC_REG_MANUAL_MODE] = 1
    /\ HasBit(ec[UW_EC_REG_CUSTOM_PROFILE], UW_EC_CUSTOM_PROFILE_BIT)
    /\ HasBit(ec[UW_EC_REG_USE_CUSTOM_FAN_TABLE_0], TABLE_0_BIT)
    /\ HasBit(ec[UW_EC_REG_USE_CUSTOM_FAN_TABLE_1], TABLE_1_BIT)

\* no handler is running
Quiescent == \A t \in Threads : kpc[t] = "idle"

\* C31 (as claimed): with a reliable transport, whenever no call is in progress
\* after fan_set_speed or fan_set_auto calls that may have run concurrently,
\* fans_initialized is true exactly if the manual override is 1 and the
\* custom-profile, table-0 and table-1 bits are all set.
C31_FlagMatchesHardware ==
    (Quiescent /\ wire.rw # "none" /\ ~unloaded) => (fans_initialized <=> ManualTableBits)

\* both tasks have made a fan_set_speed call and both calls have returned
BothStoresReturned ==
    \A t \in Threads : kpc[t] = "idle" /\ caller[t] = "fan_speed_store" /\ ret[t] = "count"

\* C32 (as claimed): once concurrent fan_set_speed calls have all returned,
\* the zone-0 table speed register of every fan addressed holds the remapped
\* value of one of the calls made for that fan (of the last one), and the
\* entry handshake has not been executed by more than one of the calls.
C32_NoLostCommand ==
    BothStoresReturned =>
        /\ \A t \in Threads :
             ec[TableAddr(fan_idx[t])] \in
                 {RemapSpeed(ToU8(store_speed[u])) :
                      u \in {w \in Threads : fan_idx[w] = fan_idx[t]}}
        /\ Cardinality({t \in Threads : nops[t] >= MinInitOps}) <= 1

\* C35 (as claimed): once uniwill_fan_exit has completed and the fan_speed
\* store that ran concurrently with it has returned (sysfs_remove_group waits
\* for it), the EC is in automatic mode: manual override 0, custom-profile and
\* both table-enable bits clear.
C35_UnloadIsFinal == (unloaded /\ Quiescent) => HardwareAuto

(***************************************************************************)
(* The read-modify-write steps, the other fan, the round trip, the result  *)
(* of a store.                                                             *)
(***************************************************************************)
\* the writes that put back a value read before, with one bit changed
RmwWrites == {"ict_wr_profile_clr", "ict_wr_profile_set"} \cup GuardedWrites

\* the bit a read-modify-write step of register r sets or clears
RmwMask(r) ==
    IF r = UW_EC_REG_CUSTOM_PROFILE THEN UW_EC_CUSTOM_PROFILE_BIT
    ELSE IF r = UW_EC_REG_FAN_MODE THEN UW_EC_FAN_MODE_BIT
    ELSE IF r = UW_EC_REG_USE_CUSTOM_FAN_TABLE_0 THEN TABLE_0_BIT
    ELSE TABLE_1_BIT

\* C33 (as claimed): a read-modify-write step of init_custom_fan_table or
\* fan_set_auto on 0x0727, 0x0751, 0x07c5 or 0x07c6 leaves every bit of the
\* register but its target bit as it was before the step, also when the read
\* before it failed.
C33_OnlyTargetBitChanges ==
    [][\A t \in Threads :
          (kpc[t] \in RmwWrites /\ kpc'[t] # kpc[t]) =>
              \A r \in StepRegs(kpc[t]) :
                  ec'[r] \in {ec[r], SetBit(ec[r], RmwMask(r)), ClearBit(ec[r], RmwMask(r))}]_vars

\* C34 (as claimed): fan_set_speed leaves the speed registers of the fan it
\* does not address as they were before the call: when the first call made on
\* the loaded driver has returned, the other fan's zone-0 table speed register
\* and direct-speed register hold what the EC held at load.
C34_OtherFanUntouched ==
    \A t \in Threads :
        (ncalls = 1 /\ caller[t] = "fan_speed_store" /\ kpc[t] = "idle" /\ ret[t] = "count")
        => LET other == 1 - fan_idx[t]
           IN  /\ ec[TableAddr(other)] = EcImage(1)[TableAddr(other)]
               /\ ec[DirectAddr(other)] = EcImage(1)[DirectAddr(other)]

\* the driver loaded on an EC in automatic mode whose full-automatic bit is
\* set, one caller at a time, over a reliable transport
RInit == CInit /\ ec = EcImage(2)

SpecR == RInit /\ [][KNext]_vars

\* the first call ran the handshake and the second, fan_set_auto by
\* fan_auto_store or by the unload, has returned
RoundTripDone ==
    /\ ncalls = 2
    /\ Quiescent
    /\ TablesProgrammed
    /\ caller[1] \in {"fan_auto_store", "uniwill_fan_exit"}
    /\ nops[1] > 0

\* C36 (as claimed): from an EC in automatic mode, a successful
\* init_custom_fan_table followed by a successful fan_set_auto leaves 0x0727,
\* 0x0741, 0x0751, 0x07c5 and 0x07c6 with the values they had before the entry.
C36_RoundTrip == RoundTripDone => \A r \in ModeRegs : ec[r] = EcImage(2)[r]

(***************************************************************************)
(* One store on the loaded driver whose own speed writes may all fail.     *)
(***************************************************************************)
fan_speed_store_once(t) == ncalls = 0 /\ SpeedStore(t, StoreInts)

\* uw_ec_write(table_addr, speed), failing or not whatever failed before
fss_table_unreliable(t) ==
    /\ kpc[t] = "fss_table"
    /\ \E ok \in BOOLEAN : EcWrite(t, TableAddr(fan_idx[t]), RemapSpeed(speed[t]), ok)
    /\ speed' = [speed EXCEPT ![t] = RemapSpeed(speed[t])]
    /\ i' = [i EXCEPT ![t] = 0]
    /\ Goto(t, "fss_direct")
    /\ UNCHANGED <<xvars, fans_initialized, caller, store_speed, fan_idx, val0, val1, mode, ret,
                   ncalls, unloaded>>

\* mutant: a call one of whose transactions failed makes the store return -EIO
fss_direct_surfacing(t) ==
    /\ kpc[t] = "fss_direct"
    /\ \E ok \in BOOLEAN : EcWrite(t, DirectAddr(fan_idx[t]), speed[t], ok)
    /\ i' = [i EXCEPT ![t] = @ + 1]
    /\ IF i[t] + 1 < DIRECT_WRITES
       THEN Goto(t, "fss_direct") /\ ret' = ret
       ELSE /\ Goto(t, "idle")
            /\ ret' = [ret EXCEPT ![t] = IF callfail'[t] THEN "EIO" ELSE "count"]
    /\ UNCHANGED <<xvars, fans_initialized, caller, store_speed, fan_idx, speed, val0, val1, mode,
                   ncalls, unloaded>>

\* the loop of uw_ec_write(direct_addr, speed), failing or not whatever failed
\* before; return 0, and the store returns count
fss_direct_unreliable(t) ==
    /\ kpc[t] = "fss_direct"
    /\ \E ok \in BOOLEAN : EcWrite(t, DirectAddr(fan_idx[t]), speed[t], ok)
    /\ i' = [i EXCEPT ![t] = @ + 1]
    /\ IF i[t] + 1 < DIRECT_WRITES
       THEN Goto(t, "fss_direct") /\ ret' = ret
       ELSE Goto(t, "idle") /\ ret' = [ret EXCEPT ![t] = "count"]
    /\ UNCHANGED <<xvars, fans_initialized, caller, store_speed, fan_idx, speed, val0, val1, mode,
                   ncalls, unloaded>>

SNext ==
    \/ fan_speed_store_once(1)
    \/ fss_check(1)
    \/ fss_table_unreliable(1)
    \/ fss_direct_unreliable(1)
    \/ ict_entry(1)
    \/ ict_rd_profile(1)
    \/ ict_wr_profile_clr(1)
    \/ ict_wr_profile_set(1)
    \/ ict_wr_manual(1)
    \/ ict_rd_mode(1)
    \/ ict_wr_mode(1)
    \/ ict_rd_tbl0(1)
    \/ ict_wr_tbl0(1)
    \/ ict_cpu_end(1)
    \/ ict_cpu_start(1)
    \/ ict_cpu_speed(1)
    \/ ict_gpu_end(1)
    \/ ict_gpu_start(1)
    \/ ict_gpu_speed(1)
    \/ ict_fill(1)
    \/ ict_rd_tbl1(1)
    \/ ict_wr_tbl1(1)
    \/ ict_done(1)

SpecS == KInit /\ [][SNext]_vars

\* C37: a fanN_speed store returns -EINVAL, having issued no EC transaction
\* (unparsable input), or the byte count; it returns the byte count whenever
\* fan_set_speed was called, also when the zone-0 write, every direct-speed
\* write or transactions of the implicit handshake failed.
C37_FailuresNotSurfaced ==
    \A t \in Threads :
        (caller[t] = "fan_speed_store" /\ kpc[t] = "idle") =>
            /\ ret[t] \in {"count", "EINVAL"}
            /\ ret[t] = "EINVAL" => (nops[t] = 0 /\ wire = NoWire)
            /\ nops[t] > 0 => ret[t] = "count"

\* C37 witness: a store has returned the byte count although a transaction of
\* its handshake, its zone-0 write and all five direct-speed writes failed.
C37_Witness ==
    /\ caller[1] = "fan_speed_store"
    /\ kpc[1] = "idle"
    /\ ret[1] = "count"
    /\ callfail[1]
    /\ nfail = MaxFail + 1 + DIRECT_WRITES
    /\ ec[DirectAddr(fan_idx[1])] = EcImage(1)[DirectAddr(fan_idx[1])]
    /\ ec[TableAddr(fan_idx[1])] # wire.value
    /\ ~wire.ok

====
